---- MODULE Spec2Model ----
(***************************************************************************)
(* Motion dynamics of the emulated Wii Remote                              *)
(* (Source/Core/Core/HW/WiimoteEmu/Dynamics.cpp, WiimoteEmu.cpp).          *)
(*                                                                         *)
(* Numbers.  The code computes in float/double; the model computes in      *)
(* fixed point over the integers, with time measured in update ticks:      *)
(*   - one tick is time_elapsed = 1/UPDATE_FREQ s, so TimeElapsed = 1;     *)
(*   - an angle unit is 1/UPDATE_FREQ^2 rad (AngleScale units per radian), *)
(*     an angular velocity unit is one angle unit per tick and an angular  *)
(*     acceleration unit is one angle unit per tick^2, which makes an      *)
(*     acceleration of n rad/s^2 exactly n units;                          *)
(*   - positions are in position units, velocities in units per tick,      *)
(*     accelerations in units per tick^2 and jerks in units per tick^3.    *)
(* The stopping distance of the acceleration-limited approach is kept as   *)
(* an exact rational; wherever a result is not an integer it is rounded    *)
(* to the nearest unit, as the float operation rounds to the nearest       *)
(* representable value.                                                    *)
(***************************************************************************)
EXTENDS Integers, Sequences, FiniteSets, TLC

VARIABLES
  m_swing_state,        \* MotionState of the swing emulation
  m_tilt_state,         \* RotationalState of the tilt emulation
  m_point_state,        \* MotionState of the pointer emulation
  m_shake_state,        \* PositionalState of the shake emulation
  m_imu_cursor_state,   \* IMUCursorState
  lastActiveGame,       \* title identifier, assigned by threadOutputs
  lastRatio,            \* aspect-ratio flag, assigned by threadOutputs
  m_status,             \* InputReportStatus: the extension flag of the status struct
  m_reporting_mode,     \* InputReportID of the data reports
  m_read_request,       \* ReadRequest: bytes of the read request still to reply
  m_extension_port,     \* ExtensionPort: whether a device is connected
  reports,              \* report ids handed to InterruptDataInputCallback by the last Update
  quitThread,           \* set by ~Wiimote, polled by threadOutputs
  serialPort,           \* HANDLE of the recoil device's COM port, or INVALID_HANDLE_VALUE
  m_ir,                 \* ControllerEmu::Cursor*: the IR group, once the constructor made it
  triggerIsActive,      \* the B button is held (BuildDesiredWiimoteState)
  triggerLastPress,     \* steady-clock time of the last press of B, 0 once consumed
  activeRecoil,         \* threadOutputs polls every 10 ms once the trigger was used
  fullAutoActive,       \* threadOutputs: the title's full-auto signal is on
  nextGunShot,          \* time after which the next scheduled recoil is due
  fullAutoDelay,        \* repeat delay of full-auto recoil, 0 when off
  queueSizeGunshot,     \* recoils of a multishot still to emit
  multishotDelay,       \* delay between the recoils of a multishot
  lastGunShot,          \* time of the last recoil
  ports,                \* the operating system's serial port handles and what was written
  now,                  \* std::chrono::steady_clock::now(), in units of 10 ms
  input,                \* inputs and settings read by the running operation
  pc,                   \* position of each thread
  call,                 \* last call of a pure function: name, arguments, result
  obs                   \* observations of the run the properties refer to

vars == <<m_swing_state, m_tilt_state, m_point_state, m_shake_state,
          m_imu_cursor_state, m_status, m_reporting_mode, m_read_request,
          m_extension_port, reports, quitThread, serialPort, m_ir, triggerIsActive,
          triggerLastPress, activeRecoil, fullAutoActive, nextGunShot, fullAutoDelay,
          queueSizeGunshot, multishotDelay, lastGunShot, ports, now,
          lastActiveGame, lastRatio, input, pc, call, obs>>

reporting == <<m_status, m_reporting_mode, m_read_request, m_extension_port, reports>>

recoil == <<triggerIsActive, triggerLastPress, activeRecoil, fullAutoActive, nextGunShot,
            fullAutoDelay, queueSizeGunshot, multishotDelay, lastGunShot>>

outputs == <<quitThread, serialPort, m_ir, recoil, ports, now>>

kinematics == <<m_swing_state, m_tilt_state, m_point_state, m_shake_state,
                m_imu_cursor_state>>

-----------------------------------------------------------------------------
(* Units and program constants *)

UPDATE_FREQ == 200

TimeElapsed == 1

AngleScale == UPDATE_FREQ * UPDATE_FREQ

\* 0.0001 rad in angle units (0.0001 * AngleScale)
ApproachEpsilon == 4

\* MathUtil::PI and MathUtil::TAU in angle units, rounded to even values
PI == 125664

TAU == 2 * PI

\* Position units per metre
PositionScale == 60 * UPDATE_FREQ

Axes == 1..3

-----------------------------------------------------------------------------
(* Scalar helpers *)

Abs(x) == IF x < 0 THEN -x ELSE x

\* MathUtil::Sign: (0 < val) - (val < 0)
Sign(x) == IF x > 0 THEN 1 ELSE IF x < 0 THEN -1 ELSE 0

\* std::copysign(x, y); the sign of a zero y is positive
CopySign(x, y) == IF y < 0 THEN -Abs(x) ELSE Abs(x)

Max(a, b) == IF a >= b THEN a ELSE b

Min(a, b) == IF a <= b THEN a ELSE b

\* n / d rounded to the nearest integer, halves away from zero
RoundDiv(n, d) == Sign(n) * Sign(d) * ((2 * Abs(n) + Abs(d)) \div (2 * Abs(d)))

\* Largest r with r * r <= n, by bisection over lo..hi
RECURSIVE SqrtBisect(_, _, _)
SqrtBisect(n, lo, hi) ==
  IF lo >= hi THEN lo
  ELSE LET mid == (lo + hi + 1) \div 2
       IN IF mid * mid <= n THEN SqrtBisect(n, mid, hi)
                            ELSE SqrtBisect(n, lo, mid - 1)

\* floor(std::sqrt(n)) for 0 <= n < 2^31
ISqrt(n) == SqrtBisect(n, 0, Min(n, 46340))

\* (a / b) > 1.0 in IEEE arithmetic: b = 0 is +0.0, so a / b is +inf for a > 0,
\* -inf for a < 0 and NaN for a = 0
RatioAboveOne(a, b) ==
  IF b = 0 THEN a > 0
  ELSE Sign(a) = Sign(b) /\ Abs(a) > Abs(b)

\* const auto x = v; ... F(x): v is evaluated once and F sees its value
Bind(v, F(_)) == CHOOSE result \in {F(x) : x \in {v}} : TRUE

-----------------------------------------------------------------------------
(* Trigonometry in fixed point: angles in angle units, sines and cosines   *)
(* (and the components of unit vectors and quaternions) in 1/FixedOne      *)

FixedOne == AngleScale \div 4

\* Sum of the Taylor terms term, -term x^2 / ((n+1)(n+2)), ... for an x in
\* 0 .. PI/4; the series ends at the first term that rounds to 0
RECURSIVE TaylorSum(_, _, _)
TaylorSum(x, term, n) ==
  IF term = 0 THEN 0
  ELSE term + TaylorSum(x, -RoundDiv(RoundDiv(term * x, AngleScale) * x,
                                     AngleScale * (n + 1) * (n + 2)), n + 2)

\* std::sin and std::cos of an angle in 0 .. PI/2
SinQuadrant(a) ==
  IF a <= PI \div 4
  THEN TaylorSum(a, RoundDiv(a * FixedOne, AngleScale), 1)
  ELSE TaylorSum(PI \div 2 - a, FixedOne, 0)

\* std::sin
Sin(a) ==
  LET r == ((a + PI) % TAU) - PI
      m == IF Abs(r) > PI \div 2 THEN PI - Abs(r) ELSE Abs(r)
  IN Sign(r) * SinQuadrant(m)

\* std::cos
Cos(a) == Sin(a + PI \div 2)

\* Largest angle in lo..hi whose tangent is at most n / d (0 <= n <= d, 0 < d)
RECURSIVE AtanBisect(_, _, _, _)
AtanBisect(n, d, lo, hi) ==
  IF lo >= hi \/ n = 0 THEN lo
  ELSE LET mid == (lo + hi + 1) \div 2
       IN IF Sin(mid) * d <= Cos(mid) * n THEN AtanBisect(n, d, mid, hi)
                                          ELSE AtanBisect(n, d, lo, mid - 1)

\* std::atan2(y, x); atan2(0, 0) is 0 and atan2(0, x) is PI for x < 0
Atan2(y, x) ==
  IF x = 0 /\ y = 0 THEN 0
  ELSE LET ax == Abs(x)
           ay == Abs(y)
           phi == IF ay <= ax THEN AtanBisect(ay, ax, 0, PI \div 4)
                              ELSE PI \div 2 - AtanBisect(ax, ay, 0, PI \div 4)
       IN IF x >= 0 THEN (IF y >= 0 THEN phi ELSE -phi)
                    ELSE (IF y >= 0 THEN PI - phi ELSE phi - PI)

\* std::acos of c / FixedOne, -FixedOne <= c <= FixedOne
Acos(c) == Atan2(ISqrt(FixedOne * FixedOne - c * c), c)

-----------------------------------------------------------------------------
(* Exact rationals num/den; den = 0 stands for a division by zero *)

Rat(n, d) == [num |-> n, den |-> d]

\* integer minus rational
IntMinusRat(k, r) == Rat(k * r.den - r.num, r.den)

\* MathUtil::Sign of a rational; the sign of a NaN (0/0) is 0
RatSign(r) == Sign(r.num) * Sign(r.den)

-----------------------------------------------------------------------------
(* Vec3 *)

Vec3(x, y, z) == <<x, y, z>>

Vec3Zero == <<0, 0, 0>>

-----------------------------------------------------------------------------
(* Stopping distances (anonymous namespace of Dynamics.cpp) *)

\* A plausible slip: the divisor does not take the sign of the velocity
CalculateStopDistance_NoCopySign(velocity, max_accel) ==
  Rat(velocity * velocity, 2 * max_accel)

\* double CalculateStopDistance(double velocity, double max_accel)
CalculateStopDistance(velocity, max_accel) ==
  Rat(velocity * velocity, 2 * CopySign(max_accel, velocity))

\* double CalculateStopDistance(double velocity, double acceleration, double max_jerk)
\* For max_jerk = 0 the code's result is NaN or infinite; its sign is then
\* multiplied by the zero jerk, so any value does: 0 is returned.
CalculateStopDistanceJerk(velocity, acceleration, max_jerk) ==
  IF max_jerk = 0 THEN 0
  ELSE
  LET velocity_flip == IF velocity < 0 THEN -1 ELSE 1
      v_0 == velocity * velocity_flip
      a_0 == acceleration * velocity_flip
      j == max_jerk
      \* t_0 = a_0 / j is used only through |t_0| and its sign
      d_0 == RoundDiv(a_0 * a_0 * a_0, 3 * j * j) + RoundDiv(a_0 * v_0, j)
      v_1 == v_0 + RoundDiv(a_0 * Abs(a_0), j) - CopySign(RoundDiv(a_0 * a_0, 2 * j), a_0)
      \* pow(|v_1|, 3/2) / sqrt(j); a cube above 2^31 is avoided by taking the
      \* root of |v_1| / j to two decimal places first
      d_1 == CopySign(IF Abs(v_1) <= 1290
                      THEN ISqrt((Abs(v_1) * Abs(v_1) * Abs(v_1)) \div j)
                      ELSE RoundDiv(Abs(v_1) * ISqrt((Abs(v_1) * 10000) \div j), 100),
                      v_1)
  IN (d_0 + d_1) * velocity_flip

-----------------------------------------------------------------------------
(* Vectors and quaternions of Common/Matrix.h.  Quaternions are            *)
(* <<w, x, y, z>>; their components, and those of unit vectors, are in     *)
(* 1/FixedOne.                                                              *)

Dot(a, b) == a[1] * b[1] + a[2] * b[2] + a[3] * b[3]

Cross(a, b) ==
  <<a[2] * b[3] - a[3] * b[2], a[3] * b[1] - a[1] * b[3], a[1] * b[2] - a[2] * b[1]>>

LengthSquared(a) == Dot(a, a)

Length(a) == ISqrt(LengthSquared(a))

\* Vec3::Normalized(); the zero vector, which the code turns into NaNs that
\* fail every comparison, stays the zero vector
Normalized(a) ==
  IF Length(a) = 0 THEN Vec3Zero
  ELSE [i \in Axes |-> RoundDiv(a[i] * FixedOne, Length(a))]

QuaternionIdentity == <<FixedOne, 0, 0, 0>>

\* Quaternion operator*(Quaternion, Quaternion)
QuaternionMul(p, q) ==
  <<RoundDiv(p[1] * q[1] - p[2] * q[2] - p[3] * q[3] - p[4] * q[4], FixedOne),
    RoundDiv(p[1] * q[2] + p[2] * q[1] + p[3] * q[4] - p[4] * q[3], FixedOne),
    RoundDiv(p[1] * q[3] - p[2] * q[4] + p[3] * q[1] + p[4] * q[2], FixedOne),
    RoundDiv(p[1] * q[4] + p[2] * q[3] - p[3] * q[2] + p[4] * q[1], FixedOne)>>

QuaternionConjugate(q) == <<q[1], -q[2], -q[3], -q[4]>>

\* Quaternion::Normalized()
QuaternionNormalized(q) ==
  LET len == ISqrt(q[1] * q[1] + q[2] * q[2] + q[3] * q[3] + q[4] * q[4])
  IN [i \in 1..4 |-> RoundDiv(q[i] * FixedOne, len)]

\* Quaternion::Inverted(): Normalized().Conjugate()
QuaternionInverted(q) == QuaternionConjugate(QuaternionNormalized(q))

\* Vec3 operator*(const Quaternion& lhs, const Vec3& rhs): lhs * (0, rhs) * conj(lhs)
QuaternionRotate(q, v) ==
  LET r == QuaternionMul(QuaternionMul(q, <<0, v[1], v[2], v[3]>>), QuaternionConjugate(q))
  IN <<r[2], r[3], r[4]>>

\* Quaternion::Rotate(rad, axis): (cos(rad / 2), axis * sin(rad / 2))
Rotate(rad, axis) ==
  LET half == RoundDiv(rad, 2)
  IN <<Cos(half), RoundDiv(axis[1] * Sin(half), FixedOne),
       RoundDiv(axis[2] * Sin(half), FixedOne), RoundDiv(axis[3] * Sin(half), FixedOne)>>

\* Quaternion::RotateZ(rad)
RotateZ(rad) == Rotate(rad, Vec3(0, 0, FixedOne))

\* The unit quaternions with a single non-zero component
UnitQuaternions ==
  {[i \in 1..4 |-> IF i = k THEN s * FixedOne ELSE 0] : k \in 1..4, s \in {-1, 1}}

-----------------------------------------------------------------------------
(* Complementary filter; accel_weight is in percent *)

\* A plausible slip: the upper bound on |cos| is not tested
ComplementaryFilter_NoUpperBound(gyroscope, accelerometer, accel_weight, accelerometer_normal) ==
  LET gyro_vec == QuaternionRotate(gyroscope, accelerometer_normal)
      normalized_accel == Normalized(accelerometer)
      cos_angle == RoundDiv(Dot(normalized_accel, gyro_vec), FixedOne)
      abs_cos_angle == Abs(cos_angle)
  IN IF abs_cos_angle > 0
     THEN LET cross == Cross(gyro_vec, normalized_accel)
              axis == Normalized([i \in Axes |-> RoundDiv(cross[i], FixedOne)])
          IN QuaternionMul(Rotate(RoundDiv(Acos(cos_angle) * accel_weight, 100),
                                  axis), gyroscope)
     ELSE gyroscope

\* Common::Quaternion ComplementaryFilter(const Quaternion& gyroscope,
\*     const Vec3& accelerometer, float accel_weight, const Vec3& accelerometer_normal)
ComplementaryFilter(gyroscope, accelerometer, accel_weight, accelerometer_normal) ==
  LET gyro_vec == QuaternionRotate(gyroscope, accelerometer_normal)
      normalized_accel == Normalized(accelerometer)
      cos_angle == RoundDiv(Dot(normalized_accel, gyro_vec), FixedOne)
      \* If gyro to accel angle difference is betwen 0 and 180 degrees we make an adjustment.
      abs_cos_angle == Abs(cos_angle)
  IN IF abs_cos_angle > 0 /\ abs_cos_angle < FixedOne
     THEN LET cross == Cross(gyro_vec, normalized_accel)
              axis == Normalized([i \in Axes |-> RoundDiv(cross[i], FixedOne)])
          IN QuaternionMul(Rotate(RoundDiv(Acos(cos_angle) * accel_weight, 100), axis),
                           gyroscope)
     ELSE gyroscope

-----------------------------------------------------------------------------
(* Accelerometer encoding *)

\* Accelerations are in 1/AccelPerG of GRAVITY_ACCELERATION
AccelPerG == 8

\* u16(x)
U16(x) == x % 65536

\* std::lround(n / d): nearest integer, halves away from zero
LRound(n, d) == RoundDiv(n, d)

\* std::clamp(x, lo, hi)
Clamp(x, lo, hi) == IF x < lo THEN lo ELSE IF hi < x THEN hi ELSE x

\* constexpr long MAX_VALUE = (1 << 10) - 1
MAX_VALUE == 1023

\* A plausible slip: the rounded value is narrowed without being clamped
ConvertAccelData_NoClamp(accel, zero_g, one_g) ==
  [i \in Axes |-> U16(LRound(accel[i] * (one_g - zero_g) + zero_g * AccelPerG, AccelPerG))]

\* WiimoteCommon::AccelData ConvertAccelData(const Vec3& accel, u16 zero_g, u16 one_g)
\* scaled_accel = accel * (one_g - zero_g) / GRAVITY_ACCELERATION is
\* accel[i] * (one_g - zero_g) / AccelPerG in the model's units
ConvertAccelData(accel, zero_g, one_g) ==
  [i \in Axes |->
     U16(Clamp(LRound(accel[i] * (one_g - zero_g) + zero_g * AccelPerG, AccelPerG),
               0, MAX_VALUE))]

-----------------------------------------------------------------------------
(* Kinematic states (Dynamics.h); "= {}" value-initialises every member *)

RotationalStateZero == [angle |-> Vec3Zero, angular_velocity |-> Vec3Zero]

PositionalStateZero ==
  [position |-> Vec3Zero, velocity |-> Vec3Zero, acceleration |-> Vec3Zero]

MotionStateZero ==
  [position |-> Vec3Zero, velocity |-> Vec3Zero, acceleration |-> Vec3Zero,
   angle |-> Vec3Zero, angular_velocity |-> Vec3Zero]

IMUCursorStateZero == [rotation |-> QuaternionIdentity, recentered_pitch |-> 0]

-----------------------------------------------------------------------------
(* Acceleration-limited approach of an angle *)

\* MathUtil::Sign(stop_offset) of ApproachAngleWithAccel, axis i
StopOffsetSign(state, angle_target, max_accel, i) ==
  RatSign(IntMinusRat(angle_target[i] - state.angle[i],
                      CalculateStopDistance(state.angular_velocity[i], max_accel)))

\* A plausible slip: the overshoot guard is missing
ApproachAngleWithAccel_NoGuard(state, angle_target, max_accel, time_elapsed) ==
  LET accel == [i \in Axes |-> StopOffsetSign(state, angle_target, max_accel, i) * max_accel]
      velocity == [i \in Axes |-> state.angular_velocity[i] + accel[i] * time_elapsed]
      change_in_angle ==
        [i \in Axes |-> velocity[i] * time_elapsed
                        + RoundDiv(accel[i] * time_elapsed * time_elapsed, 2)]
  IN [state EXCEPT !.angular_velocity = velocity,
                   !.angle = [i \in Axes |-> state.angle[i] + change_in_angle[i]]]

\* void ApproachAngleWithAccel(RotationalState*, const Vec3& angle_target,
\*                             float max_accel, float time_elapsed)
ApproachAngleWithAccel(state, angle_target, max_accel, time_elapsed) ==
  LET stop_distance ==
        [i \in Axes |-> CalculateStopDistance(state.angular_velocity[i], max_accel)]
      offset == [i \in Axes |-> angle_target[i] - state.angle[i]]
      stop_offset == [i \in Axes |-> IntMinusRat(offset[i], stop_distance[i])]
      accel == [i \in Axes |-> RatSign(stop_offset[i]) * max_accel]
      velocity == [i \in Axes |-> state.angular_velocity[i] + accel[i] * time_elapsed]
      change_in_angle ==
        [i \in Axes |-> velocity[i] * time_elapsed
                        + RoundDiv(accel[i] * time_elapsed * time_elapsed, 2)]
      \* If new angle will overshoot stop right on target.
      overshoot(i) == \/ Abs(offset[i]) < ApproachEpsilon
                      \/ RatioAboveOne(change_in_angle[i], offset[i])
  IN [state EXCEPT
        !.angular_velocity =
           [i \in Axes |-> IF overshoot(i)
                           THEN (angle_target[i] - state.angle[i]) \div time_elapsed
                           ELSE velocity[i]],
        !.angle =
           [i \in Axes |-> IF overshoot(i)
                           THEN angle_target[i]
                           ELSE state.angle[i] + change_in_angle[i]]]

-----------------------------------------------------------------------------
(* Jerk-limited approach of a position *)

\* state->acceleration += ..., state->velocity += ... and change_in_position of
\* ApproachPositionWithJerk, for the jerk it has chosen
JerkIntegrate(state, jerk, time_elapsed) ==
  LET acceleration(i) == state.acceleration[i] + jerk[i] * time_elapsed
      velocity(i) == state.velocity[i] + acceleration(i) * time_elapsed
                     + RoundDiv(jerk[i] * time_elapsed * time_elapsed, 2)
      change_in_position(i) ==
        velocity(i) * time_elapsed
        + RoundDiv(acceleration(i) * time_elapsed * time_elapsed, 2)
        + RoundDiv(jerk[i] * time_elapsed * time_elapsed * time_elapsed, 6)
  IN [acceleration |-> [i \in Axes |-> acceleration(i)],
      velocity |-> [i \in Axes |-> velocity(i)],
      change_in_position |-> [i \in Axes |-> change_in_position(i)]]

\* ApproachPositionWithJerk up to its overshoot test: the jerk-limited
\* acceleration and velocity of this tick and the projected change_in_position
JerkStep(state, position_target, max_jerk, time_elapsed) ==
  LET stop_distance(i) ==
        CalculateStopDistanceJerk(state.velocity[i], state.acceleration[i], max_jerk[i])
      offset(i) == position_target[i] - state.position[i]
      stop_offset(i) == offset(i) - stop_distance(i)
  IN Bind([i \in Axes |-> Sign(stop_offset(i)) * max_jerk[i]],
          LAMBDA jerk : JerkIntegrate(state, jerk, time_elapsed))

\* void ApproachPositionWithJerk(PositionalState*, const Vec3& position_target,
\*                               const Vec3& max_jerk, float time_elapsed)
ApproachPositionWithJerk(state, position_target, max_jerk, time_elapsed) ==
  LET offset == [i \in Axes |-> position_target[i] - state.position[i]]
      \* If new velocity will overshoot assume we would have stopped right on target.
      overshoot(step, i) == RatioAboveOne(step.change_in_position[i], offset[i])
      guarded(step) ==
        [state EXCEPT
           !.acceleration =
              [i \in Axes |-> IF overshoot(step, i) THEN 0 ELSE step.acceleration[i]],
           !.velocity = [i \in Axes |-> IF overshoot(step, i) THEN 0 ELSE step.velocity[i]],
           !.position =
              [i \in Axes |-> IF overshoot(step, i)
                              THEN position_target[i]
                              ELSE state.position[i] + step.change_in_position[i]]]
  IN Bind(JerkStep(state, position_target, max_jerk, time_elapsed), guarded)

-----------------------------------------------------------------------------
(* Motion emulators *)

\* void EmulateShake(PositionalState*, ControllerEmu::Shake*, float time_elapsed)
\* shake_group: [state : Vec3 (GetState), intensity : position units (GetIntensity),
\*               frequency : Hz (GetFrequency)]
EmulateShake(state, shake_group, time_elapsed) ==
  LET raw_target == [i \in Axes |-> shake_group.state[i] * RoundDiv(shake_group.intensity, 2)]
      flip(i) == \/ state.velocity[i] * CopySign(1, raw_target[i]) < 0
                 \/ RatioAboveOne(2 * state.position[i], raw_target[i])
      target_position == [i \in Axes |-> IF flip(i) THEN -raw_target[i] ELSE raw_target[i]]
      \* Time from "top" to "bottom" of one shake, 1 / frequency / 2 seconds, halved:
      \* UPDATE_FREQ / (4 * frequency) ticks
      half_distance(i) == Max(Abs(target_position[i]), Abs(state.position[i]))
      jerk == [i \in Axes |->
                 RoundDiv(half_distance(i) * (4 * shake_group.frequency)
                            * (4 * shake_group.frequency) * (4 * shake_group.frequency),
                          UPDATE_FREQ * UPDATE_FREQ * UPDATE_FREQ)]
  IN ApproachPositionWithJerk(state, target_position, jerk, time_elapsed)

\* void EmulateTilt(RotationalState*, ControllerEmu::Tilt*, float time_elapsed)
\* tilt_group: [state : <<x, y>> in 1/scale of full deflection (GetState),
\*              scale, max_rotational_velocity : angle units per tick]
TiltTargetAngle(tilt_group) ==
  LET \* 180 degrees is currently the max tilt value.
      roll == RoundDiv(tilt_group.state[1] * PI, tilt_group.scale)
      pitch == RoundDiv(tilt_group.state[2] * PI, tilt_group.scale)
  IN Vec3(pitch, -roll, 0)

\* For each axis, wrap around current angle if target is farther than 180 degrees.
TiltWrap(angle, target_angle) ==
  [i \in Axes |->
     IF Abs(angle[i] - target_angle[i]) > PI
     THEN angle[i] - CopySign(TAU, angle[i])
     ELSE angle[i]]

EmulateTilt(state, tilt_group, time_elapsed) ==
  LET target_angle == TiltTargetAngle(tilt_group)
      max_accel == RoundDiv(tilt_group.max_rotational_velocity
                              * tilt_group.max_rotational_velocity, TAU)
  IN ApproachAngleWithAccel([state EXCEPT !.angle = TiltWrap(state.angle, target_angle)],
                            target_angle, max_accel, time_elapsed)

\* EmulateSwing, "Clamp X and Z rotation."
SwingClampRotation(state, max_angle) ==
  [state EXCEPT
     !.angular_velocity =
        [i \in Axes |->
           IF /\ i \in {1, 3}
              /\ Abs(state.angle[i]) > Abs(max_angle)
              /\ Sign(state.angular_velocity[i]) = Sign(state.angle[i])
           THEN 0 ELSE state.angular_velocity[i]]]

\* EmulateSwing, "Adjust target position backwards based on swing progress and max
\* angle to simulate a swing with an outstretched arm."
SwingApproachPosition(state, target_position, max_distance, max_jerk, time_elapsed) ==
  LET backwards_angle == Max(Abs(state.angle[1]), Abs(state.angle[3]))
      backwards_movement ==
        RoundDiv((FixedOne - Cos(backwards_angle)) * max_distance, FixedOne)
  IN ApproachPositionWithJerk(
       state,
       Vec3(target_position[1], target_position[2] + backwards_movement,
            target_position[3]),
       max_jerk, time_elapsed)

\* A plausible slip: the circle clamp scales the position and keeps the motion
SwingClampCircle_KeepsVelocity(state, max_distance) ==
  LET xz_squared == state.position[1] * state.position[1]
                      + state.position[3] * state.position[3]
      xz_length == ISqrt(xz_squared)
  IN IF xz_squared > max_distance * max_distance
     THEN [state EXCEPT
             !.position = Vec3(RoundDiv(state.position[1] * max_distance, xz_length),
                               state.position[2],
                               RoundDiv(state.position[3] * max_distance, xz_length))]
     ELSE state

\* EmulateSwing, "Clamp Left/Right/Up/Down movement within the configured circle."
SwingClampCircle(state, max_distance) ==
  LET xz_squared == state.position[1] * state.position[1]
                      + state.position[3] * state.position[3]
      xz_length == ISqrt(xz_squared)
  IN IF xz_squared > max_distance * max_distance
     THEN [state EXCEPT
             !.position = Vec3(RoundDiv(state.position[1] * max_distance, xz_length),
                               state.position[2],
                               RoundDiv(state.position[3] * max_distance, xz_length)),
             !.acceleration = Vec3(0, state.acceleration[2], 0),
             !.velocity = Vec3(0, state.velocity[2], 0)]
     ELSE state

\* EmulateSwing, "Clamp Forward/Backward movement within the configured distance."
SwingClampDepth(state, max_distance, max_y) ==
  IF state.position[2] > max_y \/ state.position[2] < -max_distance
  THEN [state EXCEPT
          !.position = Vec3(state.position[1],
                            Clamp(state.position[2], -max_distance, max_y),
                            state.position[3]),
          !.velocity = Vec3(state.velocity[1], 0, state.velocity[3]),
          !.acceleration = Vec3(state.acceleration[1], 0, state.acceleration[3])]
  ELSE state

\* EmulateSwing up to its call of ApproachPositionWithJerk
\* swing_group: [state : Vec3 in position units (GetState), max_distance : position
\*               units, twist_angle : angle units, speed, return_speed : m/s]
SwingApproach(state, swing_group, time_elapsed) ==
  LET input_state == swing_group.state
      max_distance == swing_group.max_distance
      max_angle == swing_group.twist_angle
      \* Note: Y/Z swapped because X/Y axis to the swing_group is X/Z to the wiimote.
      \* X is negated because Wiimote X+ is to the left.
      target_position == Vec3(-input_state[1], -input_state[3], input_state[2])
      xz_target_dist == ISqrt(target_position[1] * target_position[1]
                                + target_position[3] * target_position[3])
      y_target_dist == Abs(target_position[2])
      target_dist == Vec3(xz_target_dist, y_target_dist, xz_target_dist)
      \* MathUtil::Lerp(return_speed, speed, target_dist / max_distance)
      speed == [i \in Axes |->
                  swing_group.return_speed
                    + RoundDiv((swing_group.speed - swing_group.return_speed) * target_dist[i],
                               max_distance)]
      \* speed^3 * 4 m/s^3 in position units per tick^3
      max_jerk == [i \in Axes |->
                     RoundDiv(speed[i] * speed[i] * speed[i] * 4 * PositionScale,
                              UPDATE_FREQ * UPDATE_FREQ * UPDATE_FREQ)]
      \* 2 * max_angle * speed.x^2 rad/s^2 in angle units per tick^2
      max_accel_2 == RoundDiv(2 * max_angle * speed[1] * speed[1], AngleScale)
      target_angle == Vec3(RoundDiv(-target_position[3] * max_angle, max_distance), 0,
                           RoundDiv(target_position[1] * max_angle, max_distance))
      approach(rotated, jerk) ==
        SwingApproachPosition(rotated, target_position, max_distance, jerk, time_elapsed)
  IN Bind(SwingClampRotation(
            ApproachAngleWithAccel(state, target_angle, max_accel_2, time_elapsed),
            max_angle),
          LAMBDA rotated : Bind(max_jerk, LAMBDA jerk : approach(rotated, jerk)))

\* max_y_progress * max_distance
SwingMaxY(swing_group) ==
  RoundDiv((2 * FixedOne - Cos(swing_group.twist_angle)) * swing_group.max_distance, FixedOne)

\* void EmulateSwing(MotionState*, ControllerEmu::Force*, float time_elapsed)
EmulateSwing(state, swing_group, time_elapsed) ==
  LET max_distance == swing_group.max_distance
      clamp_depth(circled) == SwingClampDepth(circled, max_distance, SwingMaxY(swing_group))
      clamp_circle(moved) == Bind(SwingClampCircle(moved, max_distance), clamp_depth)
  IN Bind(SwingApproach(state, swing_group, time_elapsed), clamp_circle)

\* Angle units of a number of tenths of a degree
DeciDegrees(d) == RoundDiv(d * PI, 1800)

\* ControllerEmu::Cursor::GetVerticalOffset(cm), GetTotalYaw(deg), GetTotalPitch(deg):
\* -1 asks for the configured value, any other argument replaces it.
\* The model passes centimetres and tenths of a degree.
GetVerticalOffset(ir_group, cm) ==
  IF cm = -1 THEN ir_group.vertical_offset ELSE RoundDiv(cm * PositionScale, 100)

GetTotalYaw(ir_group, deci_degrees) ==
  IF deci_degrees = -1 THEN ir_group.total_yaw ELSE DeciDegrees(deci_degrees)

GetTotalPitch(ir_group, deci_degrees) ==
  IF deci_degrees = -1 THEN ir_group.total_pitch ELSE DeciDegrees(deci_degrees)

\* if (cursor.x > 0) cursor.x = cursor.x - (c * abs(yori) * abs(xori));
\* if (cursor.x < 0) cursor.x = cursor.x + (c * abs(yori) * abs(xori));
\* with c in percent and the cursor in 1/FixedOne
WarpX(cursor_x, percent, xori, yori) ==
  LET d == RoundDiv(percent * Abs(yori) * Abs(xori), 100 * FixedOne)
      x_1 == IF cursor_x > 0 THEN cursor_x - d ELSE cursor_x
  IN IF x_1 < 0 THEN x_1 + d ELSE x_1

\* The per-title table of EmulatePoint, of which the model keeps the entries
\* of "S3AE5G" (Attack of the Movies 3D) under either aspect ratio
AimCorrection(ir_group, cursor, title, ratio) ==
  IF ir_group.correctaim /\ ratio = 0 /\ title = "S3AE5G"
  THEN [aim_corrected |-> TRUE,
        vertical_offset |-> GetVerticalOffset(ir_group, 15),
        yaw |-> GetTotalYaw(ir_group, 250),
        pitch |-> GetTotalPitch(ir_group, 190),
        cursor |-> [cursor EXCEPT
                      !.x = IF cursor.y < 0 THEN WarpX(cursor.x, 4, cursor.x, cursor.y)
                                            ELSE cursor.x]]
  ELSE IF ir_group.correctaim /\ ratio = 1 /\ title = "S3AE5G"
  THEN [aim_corrected |-> TRUE,
        vertical_offset |-> GetVerticalOffset(ir_group, 15),
        yaw |-> GetTotalYaw(ir_group, 190),
        pitch |-> GetTotalPitch(ir_group, 198),
        cursor |-> [cursor EXCEPT
                      !.y = IF cursor.y < 0
                            THEN cursor.y + RoundDiv(2 * Abs(cursor.y), 100)
                            ELSE cursor.y,
                      !.x = IF cursor.y > 0 THEN WarpX(cursor.x, 1, cursor.x, cursor.y)
                            ELSE IF cursor.y < 0 THEN WarpX(cursor.x, 5, cursor.x, cursor.y)
                            ELSE cursor.x]]
  ELSE [aim_corrected |-> FALSE,
        vertical_offset |-> GetVerticalOffset(ir_group, -1),
        yaw |-> GetTotalYaw(ir_group, -1),
        pitch |-> GetTotalPitch(ir_group, -1),
        cursor |-> cursor]

\* A plausible slip: the hidden cursor moves the wiimote away without *state = {}
EmulatePoint_KeepsAngle(state, ir_group, time_elapsed, title, ratio, fast_pointer) ==
  LET c == AimCorrection(ir_group, ir_group.cursor, title, ratio)
      cursor == c.cursor
      \* Nintendo recommends a distance of 1-3 meters.
      NEUTRAL_DISTANCE == 2 * PositionScale
      height == c.vertical_offset * (IF ir_group.sensor_bar_on_top THEN 1 ELSE -1)
      \* Just jump to the target position.
      jumped == [state EXCEPT !.position = Vec3(0, NEUTRAL_DISTANCE, -height),
                              !.velocity = Vec3Zero,
                              !.acceleration = Vec3Zero]
      \* (pitch / 2) * -cursor.y and (yaw / 2) * -cursor.x
      target_angle == Vec3(RoundDiv(c.pitch * (-cursor.y), 2 * FixedOne), 0,
                           RoundDiv(c.yaw * (-cursor.x), 2 * FixedOne))
  IN IF ~cursor.visible
     THEN \* Move the wiimote a kilometer forward so the sensor bar is always behind it.
          [state EXCEPT !.position = Vec3(0, -1000 * PositionScale, 0)]
     ELSE IF jumped.position[2] < 0
     THEN \* If cursor was hidden, jump to the target angle immediately.
          [jumped EXCEPT !.angle = target_angle, !.angular_velocity = Vec3Zero]
     ELSE IF fast_pointer /\ c.aim_corrected
     THEN ApproachAngleWithAccel(jumped, target_angle, RoundDiv(TAU * 50, AngleScale),
                                 time_elapsed)
     ELSE ApproachAngleWithAccel(jumped, target_angle, RoundDiv(TAU * 8, AngleScale),
                                 time_elapsed)

\* A plausible slip: the ceiling follows the fast-pointer flag alone
EmulatePoint_FlagOnly(state, ir_group, time_elapsed, title, ratio, fast_pointer) ==
  LET c == AimCorrection(ir_group, ir_group.cursor, title, ratio)
      cursor == c.cursor
      \* Nintendo recommends a distance of 1-3 meters.
      NEUTRAL_DISTANCE == 2 * PositionScale
      height == c.vertical_offset * (IF ir_group.sensor_bar_on_top THEN 1 ELSE -1)
      \* Just jump to the target position.
      jumped == [state EXCEPT !.position = Vec3(0, NEUTRAL_DISTANCE, -height),
                              !.velocity = Vec3Zero,
                              !.acceleration = Vec3Zero]
      \* (pitch / 2) * -cursor.y and (yaw / 2) * -cursor.x
      target_angle == Vec3(RoundDiv(c.pitch * (-cursor.y), 2 * FixedOne), 0,
                           RoundDiv(c.yaw * (-cursor.x), 2 * FixedOne))
  IN IF ~cursor.visible
     THEN \* Move the wiimote a kilometer forward so the sensor bar is always behind it.
          [MotionStateZero EXCEPT !.position = Vec3(0, -1000 * PositionScale, 0)]
     ELSE IF jumped.position[2] < 0
     THEN \* If cursor was hidden, jump to the target angle immediately.
          [jumped EXCEPT !.angle = target_angle, !.angular_velocity = Vec3Zero]
     ELSE IF fast_pointer
     THEN ApproachAngleWithAccel(jumped, target_angle, RoundDiv(TAU * 50, AngleScale),
                                 time_elapsed)
     ELSE ApproachAngleWithAccel(jumped, target_angle, RoundDiv(TAU * 8, AngleScale),
                                 time_elapsed)

\* void EmulatePoint(MotionState*, ControllerEmu::Cursor*, const InputOverrideFunction&,
\*                   float time_elapsed, std::string lastActiveGame, int lastRatio,
\*                   bool fastPointer)
\* ir_group: [correctaim, cursor : [x, y in 1/FixedOne, visible] (GetState),
\*            vertical_offset, total_yaw, total_pitch, sensor_bar_on_top]
EmulatePoint(state, ir_group, time_elapsed, title, ratio, fast_pointer) ==
  LET c == AimCorrection(ir_group, ir_group.cursor, title, ratio)
      cursor == c.cursor
      \* Nintendo recommends a distance of 1-3 meters.
      NEUTRAL_DISTANCE == 2 * PositionScale
      height == c.vertical_offset * (IF ir_group.sensor_bar_on_top THEN 1 ELSE -1)
      \* Just jump to the target position.
      jumped == [state EXCEPT !.position = Vec3(0, NEUTRAL_DISTANCE, -height),
                              !.velocity = Vec3Zero,
                              !.acceleration = Vec3Zero]
      \* (pitch / 2) * -cursor.y and (yaw / 2) * -cursor.x
      target_angle == Vec3(RoundDiv(c.pitch * (-cursor.y), 2 * FixedOne), 0,
                           RoundDiv(c.yaw * (-cursor.x), 2 * FixedOne))
  IN IF ~cursor.visible
     THEN \* Move the wiimote a kilometer forward so the sensor bar is always behind it.
          [MotionStateZero EXCEPT !.position = Vec3(0, -1000 * PositionScale, 0)]
     ELSE IF jumped.position[2] < 0
     THEN \* If cursor was hidden, jump to the target angle immediately.
          [jumped EXCEPT !.angle = target_angle, !.angular_velocity = Vec3Zero]
     ELSE IF fast_pointer /\ c.aim_corrected
     THEN ApproachAngleWithAccel(jumped, target_angle, RoundDiv(TAU * 50, AngleScale),
                                 time_elapsed)
     ELSE ApproachAngleWithAccel(jumped, target_angle, RoundDiv(TAU * 8, AngleScale),
                                 time_elapsed)

\* Common::Quaternion GetRotationFromGyroscope(const Common::Vec3& gyro)
GetRotationFromGyroscope(gyro) ==
  LET length == Length(gyro)
  IN IF length # 0
     THEN Rotate(length, [i \in Axes |-> RoundDiv(gyro[i] * FixedOne, length)])
     ELSE QuaternionIdentity

\* float GetPitch(const Common::Quaternion& world_rotation)
GetPitch(world_rotation) ==
  LET vec == QuaternionRotate(world_rotation, Vec3(0, 0, FixedOne))
  IN Atan2(vec[2], ISqrt(vec[1] * vec[1] + vec[3] * vec[3]))

\* float GetYaw(const Common::Quaternion& world_rotation)
GetYaw(world_rotation) ==
  LET vec == QuaternionRotate(QuaternionInverted(world_rotation), Vec3(0, FixedOne, 0))
  IN Atan2(vec[1], vec[2])

\* EmulateIMUCursor up to "Clamp yaw within configured bounds.": the rotation
\* after the gyro data and the accelerometer's correction are applied
IMUFiltered(state, imu, time_elapsed) ==
  LET ang_vel == imu.ang_vel[1]
      \* Apply rotation from gyro data.
      gyro_rotation ==
        GetRotationFromGyroscope([i \in Axes |-> ang_vel[i] * (-1) * time_elapsed])
      rotation == QuaternionMul(gyro_rotation, state.rotation)
  IN \* If we have some non-zero accel data use it to adjust gyro drift.
     IF LengthSquared(imu.accel) # 0
     THEN ComplementaryFilter(rotation, imu.accel, imu.accel_weight, Vec3(0, 0, FixedOne))
     ELSE rotation

\* EmulateIMUCursor from "Clamp yaw within configured bounds." on, with the
\* rotation it stores computed by final(rotation, yaw, target_yaw)
IMUClampYaw(state, imu, filtered, final(_, _, _)) ==
  LET yaw == GetYaw(filtered)
      max_yaw == RoundDiv(imu.total_yaw, 2)
      \* Handle the "Recenter" button being pressed.
      target_yaw == IF imu.recenter THEN 0 ELSE Clamp(yaw, -max_yaw, max_yaw)
  IN [rotation |-> final(filtered, yaw, target_yaw),
      recentered_pitch |-> IF imu.recenter THEN GetPitch(filtered)
                                           ELSE state.recentered_pitch]

\* "Adjust yaw as needed."
IMUAdjustYaw(rotation, yaw, target_yaw) ==
  IF yaw # target_yaw
  THEN QuaternionMul(rotation, RotateZ(target_yaw - yaw))
  ELSE rotation

\* A plausible slip: the yaw is left as the gyro data made it
EmulateIMUCursor_NoYawClamp(state, imu, time_elapsed) ==
  IF ~imu.enabled \/ imu.ang_vel = <<>>
  THEN IMUCursorStateZero
  ELSE Bind(IMUFiltered(state, imu, time_elapsed),
            LAMBDA filtered :
              IMUClampYaw(state, imu, filtered,
                          LAMBDA rotation, yaw, target_yaw :
                            QuaternionNormalized(rotation)))

\* A plausible slip: the rotation is stored as the products left it
EmulateIMUCursor_NoNormalize(state, imu, time_elapsed) ==
  IF ~imu.enabled \/ imu.ang_vel = <<>>
  THEN IMUCursorStateZero
  ELSE Bind(IMUFiltered(state, imu, time_elapsed),
            LAMBDA filtered : IMUClampYaw(state, imu, filtered, IMUAdjustYaw))

\* void EmulateIMUCursor(IMUCursorState*, ControllerEmu::IMUCursor*,
\*                       ControllerEmu::IMUAccelerometer*, ControllerEmu::IMUGyroscope*,
\*                       float time_elapsed)
\* imu: [enabled, ang_vel : <<Vec3>> in angle units per tick or <<>> (no gyro data),
\*       accel : Vec3 (zero without accelerometer data), accel_weight : percent,
\*       total_yaw : angle units, recenter : BOOLEAN]
EmulateIMUCursor(state, imu, time_elapsed) ==
  \* Reset if pointing is disabled or we have no gyro data.
  IF ~imu.enabled \/ imu.ang_vel = <<>>
  THEN IMUCursorStateZero
  ELSE Bind(IMUFiltered(state, imu, time_elapsed),
            LAMBDA filtered :
              IMUClampYaw(state, imu, filtered,
                          LAMBDA rotation, yaw, target_yaw :
                            \* Normalize for floating point inaccuracies.
                            QuaternionNormalized(IMUAdjustYaw(rotation, yaw, target_yaw))))

-----------------------------------------------------------------------------
(* Values the variables take outside the operation a specification is about *)

KinematicsAtRest ==
  /\ m_swing_state = MotionStateZero
  /\ m_tilt_state = RotationalStateZero
  /\ m_point_state = MotionStateZero
  /\ m_shake_state = PositionalStateZero
  /\ m_imu_cursor_state = IMUCursorStateZero

\* Wiimote::Reset(): the reporting mode, the read request, the status struct
\* and the extension port; no report has been sent
ReportingAtReset ==
  /\ m_status = [extension |-> FALSE]
  /\ m_reporting_mode = "ReportCore"
  /\ m_read_request = [size |-> 0]
  /\ m_extension_port = [connected |-> FALSE]
  /\ reports = <<>>

INVALID_HANDLE_VALUE == 0

\* The members threadOutputs works with once the constructor is through and no
\* title has run: no port is open, nothing is scheduled
OutputsAtRest ==
  /\ quitThread = FALSE
  /\ serialPort = INVALID_HANDLE_VALUE
  /\ m_ir = "Cursor"
  /\ triggerIsActive = FALSE
  /\ triggerLastPress = 0
  /\ activeRecoil = FALSE
  /\ fullAutoActive = FALSE
  /\ nextGunShot = 0
  /\ fullAutoDelay = 0
  /\ queueSizeGunshot = 0
  /\ multishotDelay = 0
  /\ lastGunShot = 0
  /\ ports = <<>>
  /\ now = 0

NoCall == [name |-> "none"]

ThreadsIdle == [emu |-> "idle", thr |-> "idle"]

-----------------------------------------------------------------------------
(* Repeated ApproachAngleWithAccel ticks towards a target                  *)

\* Bounds of the targets (angle units) and of the target changes
MaxTarget == 170

MaxRetarget == 31

MaxRetargets == 1

\* Accelerations (rad/s^2): 10 is the end-to-end scenario's, 50 is TAU * 8 of
\* EmulatePoint rounded to an even number of units
ApproachAccels == {10, 50}

\* The end-to-end scenario: target (pi/2, 0, 0), max_accel 10, dt 1/200
ScenarioInput == [angle_target |-> Vec3(PI \div 2, 0, 0), max_accel |-> 10]

ApproachObsInit ==
  [retargets |-> 0, last_sign |-> Vec3Zero, changed |-> <<FALSE, FALSE, FALSE>>]

InitApproachCommon ==
  /\ KinematicsAtRest
  /\ ReportingAtReset
  /\ OutputsAtRest
  /\ lastActiveGame = ""
  /\ lastRatio = 0
  /\ pc = ThreadsIdle
  /\ call = NoCall
  /\ obs = ApproachObsInit

\* From rest, towards a target that stays constant
InitApproach ==
  /\ InitApproachCommon
  /\ input \in {[angle_target |-> Vec3(x, y, 0), max_accel |-> a] :
                  x \in -MaxTarget..MaxTarget, y \in {0, 19}, a \in ApproachAccels}
               \cup {ScenarioInput}

\* From rest, towards a target that changes at most MaxRetargets times
InitRetarget ==
  /\ InitApproachCommon
  /\ input \in {[angle_target |-> Vec3(x, 0, 0), max_accel |-> a] :
                  x \in -MaxRetarget..MaxRetarget, a \in ApproachAccels}

\* One update tick: ApproachAngleWithAccel on the rotational state.
\* obs.last_sign is the sign of stop_offset in the last tick, obs.changed[i]
\* tells that it has gone from 1 to -1 or back since the target was set.
ApproachTick ==
  LET s == [i \in Axes |-> StopOffsetSign(m_tilt_state, input.angle_target,
                                          input.max_accel, i)]
  IN /\ m_tilt_state' = ApproachAngleWithAccel(m_tilt_state, input.angle_target,
                                               input.max_accel, TimeElapsed)
     /\ obs' = [obs EXCEPT
                  !.last_sign = s,
                  !.changed = [i \in Axes |-> obs.changed[i] \/ obs.last_sign[i] * s[i] = -1]]
     /\ UNCHANGED <<reporting, outputs, m_swing_state, m_point_state, m_shake_state, m_imu_cursor_state,
                    lastActiveGame, lastRatio, input, pc, call>>

\* The input moves: the target of the following ticks is another one
Retarget ==
  /\ obs.retargets < MaxRetargets
  /\ \E x \in -MaxRetarget..MaxRetarget :
       /\ Vec3(x, 0, 0) # input.angle_target
       /\ input' = [input EXCEPT !.angle_target = Vec3(x, 0, 0)]
  /\ obs' = [ApproachObsInit EXCEPT !.retargets = obs.retargets + 1]
  /\ UNCHANGED <<reporting, outputs, kinematics, lastActiveGame, lastRatio, pc, call>>

NextApproach == ApproachTick

NextRetarget == ApproachTick \/ Retarget

SpecApproach == InitApproach /\ [][NextApproach]_vars

\* The device is updated at UPDATE_FREQ for as long as it exists
SpecRetarget == InitRetarget /\ [][NextRetarget]_vars /\ WF_vars(ApproachTick)

AtTarget(i) == m_tilt_state.angle[i] = input.angle_target[i]

Distance(i) == Abs(input.angle_target[i] - m_tilt_state.angle[i])

\* C1: for a constant target, repeated ticks eventually make every axis of the
\* angle equal to the target, and from some tick on the angular velocity is 0
\* on every axis and the state no longer changes.
C1_Converges ==
  <>[](\A i \in Axes : AtTarget(i) /\ m_tilt_state.angular_velocity[i] = 0)

\* C2: for a constant target, once stop_offset has changed sign on an axis,
\* |angle - target| on that axis does not grow in any later tick and the angle
\* never crosses to the other side of the target.
C2_NeverOvershoots ==
  [][\A i \in Axes :
       obs.changed[i] =>
         /\ Abs(input.angle_target[i] - m_tilt_state'.angle[i]) <= Distance(i)
         /\ Sign(input.angle_target[i] - m_tilt_state'.angle[i])
              * Sign(input.angle_target[i] - m_tilt_state.angle[i]) >= 0]_vars

InScenario == input = ScenarioInput

\* C3 as stated: in the scenario angle.x approaches pi/2 monotonically without
\* ever exceeding it, and at the tick where it arrives the angular velocity is 0.
C3_ZeroVelocityAtArrival ==
  [][InScenario =>
       /\ m_tilt_state'.angle[1] >= m_tilt_state.angle[1]
       /\ m_tilt_state'.angle[1] <= input.angle_target[1]
       /\ (m_tilt_state'.angle[1] = input.angle_target[1]
             => m_tilt_state'.angular_velocity[1] = 0)]_vars

\* C3 amended: in the scenario angle.x approaches pi/2 monotonically without
\* ever exceeding it; in the tick of arrival the angular velocity is the last
\* offset per tick, and in every tick after the arrival it is 0.
C3_ZeroVelocityAfterArrival ==
  [][InScenario =>
       /\ m_tilt_state'.angle[1] >= m_tilt_state.angle[1]
       /\ m_tilt_state'.angle[1] <= input.angle_target[1]
       /\ (~AtTarget(1) /\ m_tilt_state'.angle[1] = input.angle_target[1]
             => m_tilt_state'.angular_velocity[1]
                  = (input.angle_target[1] - m_tilt_state.angle[1]) \div TimeElapsed)
       /\ (AtTarget(1) => /\ m_tilt_state'.angle[1] = input.angle_target[1]
                          /\ m_tilt_state'.angular_velocity[1] = 0)]_vars

\* The scenario has arrived and come to rest
C3_Arrived ==
  /\ InScenario
  /\ AtTarget(1)
  /\ m_tilt_state.angular_velocity = Vec3Zero
  /\ obs.last_sign[1] # 0

-----------------------------------------------------------------------------
(* The free functions of Dynamics.cpp applied to arguments drawn at Init   *)

\* Bounds of the arguments
MaxVelocity == 12

MaxAccel == 6

MaxAccelG == 100

MaxAccelComponent == 2

\* (zero_g, one_g): the one BuildDesiredWiimoteState passes (ACCEL_ZERO_G << 2,
\* ACCEL_ONE_G << 2), an inverted one, and the two extreme u16 pairs
Calibrations == {<<512, 616>>, <<616, 512>>, <<0, 65535>>, <<65535, 0>>}

\* accel_weight in percent
AccelWeights == {2, 100}

AccelerometerNormals == {Vec3(0, 0, FixedOne), Vec3(0, FixedOne, 0)}

\* Accelerometer readings are multiples of AccelUnit
AccelUnit == FixedOne \div 10

StopDistanceInputs ==
  {[name |-> "CalculateStopDistance", velocity |-> v, max_accel |-> a] :
     v \in -MaxVelocity..MaxVelocity, a \in (-MaxAccel..MaxAccel) \ {0}}

ConvertInputs ==
  {[name |-> "ConvertAccelData", accel |-> Vec3(x, -x, x \div 3),
    zero_g |-> c[1], one_g |-> c[2]] :
     x \in (-MaxAccelG * AccelPerG)..(MaxAccelG * AccelPerG), c \in Calibrations}

FilterInputs ==
  {[name |-> "ComplementaryFilter", gyroscope |-> q,
    accelerometer |-> Vec3(x * AccelUnit, y * AccelUnit, z * AccelUnit),
    accel_weight |-> w, accelerometer_normal |-> n] :
     q \in UnitQuaternions, x \in -MaxAccelComponent..MaxAccelComponent,
     y \in -MaxAccelComponent..MaxAccelComponent, z \in {-1, 0, 1},
     w \in AccelWeights, n \in AccelerometerNormals}

InitPure ==
  /\ KinematicsAtRest
  /\ ReportingAtReset
  /\ OutputsAtRest
  /\ lastActiveGame = ""
  /\ lastRatio = 0
  /\ pc = ThreadsIdle
  /\ call = NoCall
  /\ obs = ApproachObsInit
  /\ input \in StopDistanceInputs \cup ConvertInputs \cup FilterInputs

Returns(result) ==
  /\ call = NoCall
  /\ call' = [name |-> input.name, result |-> result]
  /\ UNCHANGED <<reporting, outputs, kinematics, lastActiveGame, lastRatio, input, pc, obs>>

CallCalculateStopDistance ==
  /\ input.name = "CalculateStopDistance"
  /\ Returns(CalculateStopDistance(input.velocity, input.max_accel))

CallConvertAccelData ==
  /\ input.name = "ConvertAccelData"
  /\ Returns(ConvertAccelData(input.accel, input.zero_g, input.one_g))

CallComplementaryFilter ==
  /\ input.name = "ComplementaryFilter"
  /\ Returns(ComplementaryFilter(input.gyroscope, input.accelerometer,
                                 input.accel_weight, input.accelerometer_normal))

NextPure == CallCalculateStopDistance \/ CallConvertAccelData \/ CallComplementaryFilter

SpecPure == InitPure /\ [][NextPure]_vars

Returned(name) == call.name = name /\ input.name = name

\* C4: ConvertAccelData returns three values in [0, 1023]; each is the nearest
\* integer to accel * (one_g - zero_g) / g + zero_g when that lies in the
\* range, 0 when it lies below and 1023 when it lies above (no wrapping).
C4_ConvertSaturates ==
  Returned("ConvertAccelData") =>
    \A i \in Axes :
      LET r == call.result[i]
          \* AccelPerG times the exact value before rounding
          exact == input.accel[i] * (input.one_g - input.zero_g)
                     + input.zero_g * AccelPerG
      IN /\ r \in 0..1023
         /\ 2 * exact < AccelPerG => r = 0
         /\ 2 * exact >= 2 * 1023 * AccelPerG - AccelPerG => r = 1023
         /\ (r # 0 /\ r # 1023) => 2 * Abs(r * AccelPerG - exact) <= AccelPerG

\* 100 g under the calibration in use saturates at 1023, -100 g at 0
C4_HundredG ==
  /\ Returned("ConvertAccelData")
  /\ input.accel[1] = 100 * AccelPerG
  /\ <<input.zero_g, input.one_g>> = <<512, 616>>
  /\ call.result[1] = 1023
  /\ call.result[2] = 0

\* C5: CalculateStopDistance(velocity, max_accel) has the sign of velocity for
\* every non-zero max_accel, and is zero when velocity is 0.
C5_StopDistanceSign ==
  Returned("CalculateStopDistance") =>
    /\ call.result.den # 0
    /\ Sign(call.result.num) * Sign(call.result.den) = Sign(input.velocity)
    /\ input.velocity = 0 => call.result.num = 0

\* A negative velocity with a negative max_accel stops at a negative distance
C5_NegativeBoth ==
  /\ Returned("CalculateStopDistance")
  /\ input.velocity < 0
  /\ input.max_accel < 0
  /\ Sign(call.result.num) * Sign(call.result.den) = -1

\* The accelerometer against the rest direction as the gyroscope rotates it
GyroVec == QuaternionRotate(input.gyroscope, input.accelerometer_normal)

Parallel == Cross(GyroVec, input.accelerometer) = Vec3Zero

Unmodified == call.result = input.gyroscope

\* C6: ComplementaryFilter rotates the gyro orientation toward the
\* accelerometer direction whenever the angle between the two down vectors is
\* strictly between 0 and pi, and returns it unchanged only when they are
\* parallel or antiparallel.
C6_RotatesBetweenZeroAndPi ==
  Returned("ComplementaryFilter") /\ input.accelerometer # Vec3Zero =>
    /\ ~Parallel =>
         Dot(QuaternionRotate(call.result, input.accelerometer_normal), input.accelerometer)
           > Dot(GyroVec, input.accelerometer)
    /\ Unmodified => Parallel

\* C7: ComplementaryFilter returns the gyroscope orientation unmodified when
\* the accelerometer is parallel or antiparallel to the rotated rest direction.
C7_UnmodifiedWhenParallel ==
  Returned("ComplementaryFilter") /\ input.accelerometer # Vec3Zero /\ Parallel
    => Unmodified

\* An antiparallel accelerometer under a gyroscope that is not the identity
C7_Antiparallel ==
  /\ Returned("ComplementaryFilter")
  /\ input.gyroscope = <<0, FixedOne, 0, 0>>
  /\ input.accelerometer_normal = Vec3(0, 0, FixedOne)
  /\ input.accelerometer = Vec3(0, 0, AccelUnit)
  /\ Dot(GyroVec, input.accelerometer) < 0
  /\ Unmodified

-----------------------------------------------------------------------------
(* Repeated EmulateShake ticks under a constant shake input                *)

\* Ticks of a run, and the tick from which the series counts as settled
MaxShakeTicks == 320

ShakeSettleTicks == 200

\* The end-to-end scenario: intensity 1, frequency 5 Hz
ShakeScenario == [intensity |-> PositionScale, frequency |-> 5]

\* Ticks in 1 / frequency seconds
ShakePeriodTicks == UPDATE_FREQ \div ShakeScenario.frequency

\* What counts as equal in the settled series: 1% of the intensity
ShakeTolerance == ShakeScenario.intensity \div 100

\* Shake::GetState(): every axis is released or fully pressed either way
ShakeStates ==
  {Vec3(x, y, z) : x \in {-1, 0, 1}, y \in {0, 1}, z \in {0, -1}} \ {Vec3Zero}

InitShake ==
  /\ KinematicsAtRest
  /\ ReportingAtReset
  /\ OutputsAtRest
  /\ lastActiveGame = ""
  /\ lastRatio = 0
  /\ pc = ThreadsIdle
  /\ call = NoCall
  /\ obs = [tick |-> 0, history |-> <<>>]
  /\ input \in {[state |-> s, intensity |-> ShakeScenario.intensity,
                 frequency |-> ShakeScenario.frequency] : s \in ShakeStates}

\* One update tick: EmulateShake on the shake state.  obs.history holds the
\* positions before each of the last ShakePeriodTicks ticks, oldest first.
ShakeTick ==
  /\ obs.tick < MaxShakeTicks
  /\ m_shake_state' = EmulateShake(m_shake_state, input, TimeElapsed)
  /\ obs' = [tick |-> obs.tick + 1,
             history |-> IF Len(obs.history) < ShakePeriodTicks
                         THEN Append(obs.history, m_shake_state.position)
                         ELSE Append(Tail(obs.history), m_shake_state.position)]
  /\ UNCHANGED <<reporting, outputs, m_swing_state, m_tilt_state, m_point_state, m_imu_cursor_state,
                 lastActiveGame, lastRatio, input, pc, call>>

NextShake == ShakeTick

SpecShake == InitShake /\ [][NextShake]_vars

\* The positions of the last ShakePeriodTicks ticks on axis i, the current one included
ShakeWindow(i) ==
  {obs.history[k][i] : k \in 2..Len(obs.history)} \cup {m_shake_state.position[i]}

\* C8: under a constant non-zero shake input with intensity 1 and frequency
\* 5 Hz the settled position series of that axis repeats after 1/5 s and
\* oscillates between +intensity/2 and -intensity/2: it stays within these
\* and every period reaches both.
C8_ShakePeriodic ==
  obs.tick >= ShakeSettleTicks /\ Len(obs.history) = ShakePeriodTicks =>
    \A i \in Axes :
      input.state[i] # 0 =>
        LET half == ShakeScenario.intensity \div 2
        IN /\ Abs(m_shake_state.position[i] - obs.history[1][i]) <= ShakeTolerance
           /\ \A p \in ShakeWindow(i) : Abs(p) <= half + ShakeTolerance
           /\ \E p \in ShakeWindow(i) : p >= half - ShakeTolerance
           /\ \E p \in ShakeWindow(i) : p <= -half + ShakeTolerance

-----------------------------------------------------------------------------
(* The emulated Wii Remote: StepDynamics on the emulation thread, Reset,   *)
(* and the title tracking of the threadOutputs thread                      *)

\* Bounds of a run
MaxTicks == 2

MaxResets == 1

MaxTitleChanges == 1

\* SConfig::GetGameID(): no game, a title of the aim-correction table, another title
Titles == {"", "S3AE5G", "RSBE01"}

\* What a read of lastActiveGame may return besides its old and its new value
\* while threadOutputs assigns it: a string that is neither
TornTitle == "?"

\* Settings and control states of a run; the controls are held all along
SwingGroup ==
  [state |-> Vec3(PositionScale \div 2, 0, 0), max_distance |-> PositionScale \div 2,
   twist_angle |-> PI \div 2, speed |-> 16, return_speed |-> 8]

TiltGroup == [state |-> <<1, 0>>, scale |-> 2, max_rotational_velocity |-> (7 * TAU) \div UPDATE_FREQ]

IRGroups ==
  {[correctaim |-> ca, cursor |-> [x |-> FixedOne \div 2, y |-> -FixedOne \div 4, visible |-> v],
    vertical_offset |-> PositionScale \div 10, total_yaw |-> DeciDegrees(150),
    total_pitch |-> DeciDegrees(150), sensor_bar_on_top |-> TRUE] :
     ca \in BOOLEAN, v \in BOOLEAN}

ShakeGroup ==
  [state |-> Vec3(1, 0, 0), intensity |-> PositionScale, frequency |-> 5]

IMUInputs ==
  {[enabled |-> TRUE, ang_vel |-> g, accel |-> Vec3(0, 0, FixedOne), accel_weight |-> 2,
    total_yaw |-> DeciDegrees(150), recenter |-> FALSE] :
     g \in {<<>>, <<Vec3(UPDATE_FREQ, 0, 0)>>}}

SpecObsInit ==
  [ticks |-> 0, resets |-> 0, title_changes |-> 0, after_reset |-> FALSE, moved |-> FALSE,
   writes |-> [swing |-> 0, tilt |-> 0, point |-> 0, shake |-> 0, imu |-> 0]]

\* After Wiimote::Wiimote(): Reset() has run, threadOutputs polls
Init ==
  /\ KinematicsAtRest
  /\ ReportingAtReset
  /\ OutputsAtRest
  /\ lastActiveGame = ""
  /\ lastRatio = 0
  /\ pc = [emu |-> "idle", thr |-> "poll", title |-> ""]
  /\ call = NoCall
  /\ obs = SpecObsInit
  /\ input \in [swing : {SwingGroup}, tilt : {TiltGroup}, ir : IRGroups,
                shake : {ShakeGroup}, imu : IMUInputs, fastPointer : BOOLEAN,
                title : {""}, widescreen : BOOLEAN]

\* One call of StepDynamics is the five steps below, in this order
StepDynamicsAt(here, next) ==
  /\ pc.emu = here
  /\ pc' = [pc EXCEPT !.emu = next]

\* obs.after_reset and obs.moved describe the step just taken, when it is a Reset
NotReset == [obs EXCEPT !.after_reset = FALSE, !.moved = FALSE]

Written(state) == [NotReset EXCEPT !.writes[state] = @ + 1]

StepSwing ==
  /\ obs.ticks < MaxTicks
  /\ StepDynamicsAt("idle", "EmulateTilt")
  /\ m_swing_state' = EmulateSwing(m_swing_state, input.swing, TimeElapsed)
  /\ obs' = [Written("swing") EXCEPT
               !.writes = [swing |-> 1, tilt |-> 0, point |-> 0, shake |-> 0, imu |-> 0]]
  /\ UNCHANGED <<reporting, outputs, m_tilt_state, m_point_state, m_shake_state, m_imu_cursor_state,
                 lastActiveGame, lastRatio, input, call>>

StepTilt ==
  /\ StepDynamicsAt("EmulateTilt", "EmulatePoint")
  /\ m_tilt_state' = EmulateTilt(m_tilt_state, input.tilt, TimeElapsed)
  /\ obs' = Written("tilt")
  /\ UNCHANGED <<reporting, outputs, m_swing_state, m_point_state, m_shake_state, m_imu_cursor_state,
                 lastActiveGame, lastRatio, input, call>>

\* lastActiveGame is copied into the argument while threadOutputs may be
\* assigning it, without any lock
StepPoint ==
  /\ StepDynamicsAt("EmulatePoint", "EmulateShake")
  /\ \E title \in IF pc.thr = "assign_title"
                  THEN {lastActiveGame, pc.title, TornTitle}
                  ELSE {lastActiveGame} :
       m_point_state' = EmulatePoint(m_point_state, input.ir, TimeElapsed, title,
                                     lastRatio, input.fastPointer)
  /\ obs' = Written("point")
  /\ UNCHANGED <<reporting, outputs, m_swing_state, m_tilt_state, m_shake_state, m_imu_cursor_state,
                 lastActiveGame, lastRatio, input, call>>

StepShake ==
  /\ StepDynamicsAt("EmulateShake", "EmulateIMUCursor")
  /\ m_shake_state' = EmulateShake(m_shake_state, input.shake, TimeElapsed)
  /\ obs' = Written("shake")
  /\ UNCHANGED <<reporting, outputs, m_swing_state, m_tilt_state, m_point_state, m_imu_cursor_state,
                 lastActiveGame, lastRatio, input, call>>

StepIMUCursor ==
  /\ StepDynamicsAt("EmulateIMUCursor", "idle")
  /\ m_imu_cursor_state' = EmulateIMUCursor(m_imu_cursor_state, input.imu, TimeElapsed)
  /\ obs' = [Written("imu") EXCEPT !.ticks = @ + 1]
  /\ UNCHANGED <<reporting, outputs, m_swing_state, m_tilt_state, m_point_state, m_shake_state,
                 lastActiveGame, lastRatio, input, call>>

\* Every kinematic state differs from its default
AllMoved ==
  /\ m_swing_state # MotionStateZero
  /\ m_tilt_state # RotationalStateZero
  /\ m_point_state # MotionStateZero
  /\ m_shake_state # PositionalStateZero
  /\ m_imu_cursor_state # IMUCursorStateZero

\* A plausible slip: one of the states is left out
Reset_KeepsShake ==
  /\ pc.emu = "idle"
  /\ obs.resets < MaxResets
  /\ m_swing_state' = MotionStateZero
  /\ m_tilt_state' = RotationalStateZero
  /\ m_point_state' = MotionStateZero
  /\ m_imu_cursor_state' = IMUCursorStateZero
  /\ obs' = [obs EXCEPT !.resets = @ + 1, !.after_reset = TRUE, !.moved = AllMoved]
  /\ UNCHANGED <<reporting, outputs, m_shake_state, lastActiveGame, lastRatio, input, pc, call>>

\* void Wiimote::Reset(), between two updates
Reset ==
  /\ pc.emu = "idle"
  /\ obs.resets < MaxResets
  /\ m_swing_state' = MotionStateZero
  /\ m_tilt_state' = RotationalStateZero
  /\ m_point_state' = MotionStateZero
  /\ m_shake_state' = PositionalStateZero
  /\ m_imu_cursor_state' = IMUCursorStateZero
  /\ obs' = [obs EXCEPT !.resets = @ + 1, !.after_reset = TRUE, !.moved = AllMoved]
  /\ UNCHANGED <<reporting, outputs, lastActiveGame, lastRatio, input, pc, call>>

\* The emulator boots or stops a game: SConfig's game id changes
HostSetTitle ==
  /\ obs.title_changes < MaxTitleChanges
  /\ \E title \in Titles \ {input.title} : input' = [input EXCEPT !.title = title]
  /\ obs' = [NotReset EXCEPT !.title_changes = @ + 1]
  /\ UNCHANGED <<reporting, outputs, kinematics, lastActiveGame, lastRatio, pc, call>>

ThreadAt(here, next) ==
  /\ pc.thr = here
  /\ pc' = [pc EXCEPT !.thr = next]
  /\ obs' = NotReset

\* std::string title = SConfig::GetInstance().GetGameID(); if (lastActiveGame != title)
ThreadPoll ==
  /\ pc.thr = "poll"
  /\ lastActiveGame # input.title
  /\ pc' = [pc EXCEPT !.thr = "assign_title", !.title = input.title]
  /\ obs' = NotReset
  /\ UNCHANGED <<reporting, outputs, kinematics, lastActiveGame, lastRatio, input, call>>

\* lastActiveGame = title;
ThreadAssignTitle ==
  /\ ThreadAt("assign_title", "zero_ratio")
  /\ lastActiveGame' = pc.title
  /\ UNCHANGED <<reporting, outputs, kinematics, lastRatio, input, call>>

\* lastRatio = 0;
ThreadZeroRatio ==
  /\ ThreadAt("zero_ratio", "set_ratio")
  /\ lastRatio' = 0
  /\ UNCHANGED <<reporting, outputs, kinematics, lastActiveGame, input, call>>

\* if (title != "" && title != "00000000" && Config::Get(Config::SYSCONF_WIDESCREEN))
\*   lastRatio = 1;
ThreadSetRatio ==
  /\ ThreadAt("set_ratio", "poll")
  /\ lastRatio' = IF pc.title # "" /\ pc.title # "00000000" /\ input.widescreen
                  THEN 1 ELSE lastRatio
  /\ UNCHANGED <<reporting, outputs, kinematics, lastActiveGame, input, call>>

Next ==
  \/ StepSwing
  \/ StepTilt
  \/ StepPoint
  \/ StepShake
  \/ StepIMUCursor
  \/ Reset
  \/ HostSetTitle
  \/ ThreadPoll
  \/ ThreadAssignTitle
  \/ ThreadZeroRatio
  \/ ThreadSetRatio

Spec == Init /\ [][Next]_vars

\* C9: every kinematic state is mutated exactly once per update tick, and
\* while StepDynamics runs no step of another thread writes the title
\* identifier or the aspect-ratio flag that it passes to EmulatePoint.
C9_SerializedDynamics ==
  [][/\ (pc.emu # "idle" /\ pc'.emu = "idle")
          => obs'.writes = [swing |-> 1, tilt |-> 1, point |-> 1, shake |-> 1, imu |-> 1]
     /\ (pc.emu # "idle" /\ pc'.emu = pc.emu)
          => (lastActiveGame' = lastActiveGame /\ lastRatio' = lastRatio)]_vars

\* C10: after Wiimote::Reset, whatever ticks preceded it, the five kinematic
\* states have their default value.
C10_ResetClears ==
  obs.after_reset =>
    /\ m_swing_state = MotionStateZero
    /\ m_tilt_state = RotationalStateZero
    /\ m_point_state = MotionStateZero
    /\ m_shake_state = PositionalStateZero
    /\ m_imu_cursor_state = IMUCursorStateZero

\* A Reset that found every one of the five states away from its default
C10_ResetAfterMotion ==
  /\ obs.after_reset
  /\ obs.moved
  /\ obs.ticks > 0

-----------------------------------------------------------------------------
(* EmulatePoint over ticks whose cursor input changes from tick to tick.   *)
(* obs.before is the point state a tick started from and obs.given the     *)
(* arguments it was called with.                                            *)

MaxPointTicks == 3

\* ControllerEmu::Cursor::GetState: two visible cursors and the hidden one
PointCursors ==
  {[x |-> FixedOne \div 2, y |-> -FixedOne \div 4, visible |-> TRUE],
   [x |-> -FixedOne, y |-> FixedOne \div 2, visible |-> TRUE],
   [x |-> 0, y |-> 0, visible |-> FALSE]}

PointInputs ==
  [ir : {[correctaim |-> ca, cursor |-> c, vertical_offset |-> PositionScale \div 10,
          total_yaw |-> DeciDegrees(150), total_pitch |-> DeciDegrees(150),
          sensor_bar_on_top |-> TRUE] : ca \in BOOLEAN, c \in PointCursors},
   title : Titles, ratio : {0, 1}, fastPointer : BOOLEAN]

InitPoint ==
  /\ KinematicsAtRest
  /\ ReportingAtReset
  /\ OutputsAtRest
  /\ lastActiveGame = ""
  /\ lastRatio = 0
  /\ pc = ThreadsIdle
  /\ call = NoCall
  /\ input \in PointInputs
  /\ obs = [ticks |-> 0, before |-> MotionStateZero, given |-> input]

\* StepDynamics' call of EmulatePoint; the cursor moves before the next tick
PointTick ==
  /\ obs.ticks < MaxPointTicks
  /\ m_point_state' = EmulatePoint(m_point_state, input.ir, TimeElapsed, input.title,
                                   input.ratio, input.fastPointer)
  /\ \E cursor \in PointCursors : input' = [input EXCEPT !.ir.cursor = cursor]
  /\ obs' = [ticks |-> obs.ticks + 1, before |-> m_point_state, given |-> input]
  /\ UNCHANGED <<reporting, outputs, m_swing_state, m_tilt_state, m_shake_state, m_imu_cursor_state,
                 lastActiveGame, lastRatio, pc, call>>

NextPoint == PointTick

SpecPoint == InitPoint /\ [][NextPoint]_vars

\* The last tick was called with a visible / a hidden cursor
PointVisibleTick == obs.ticks > 0 /\ obs.given.ir.cursor.visible

PointHiddenTick == obs.ticks > 0 /\ ~obs.given.ir.cursor.visible

\* constexpr auto MAX_ACCEL of the two branches, in angle units per tick^2
FastMaxAccel == RoundDiv(TAU * 50, AngleScale)

StandardMaxAccel == RoundDiv(TAU * 8, AngleScale)

\* target_angle of the last tick
PointTargetAngle ==
  LET c == AimCorrection(obs.given.ir, obs.given.ir.cursor, obs.given.title, obs.given.ratio)
  IN Vec3(RoundDiv(c.pitch * (-c.cursor.y), 2 * FixedOne), 0,
          RoundDiv(c.yaw * (-c.cursor.x), 2 * FixedOne))

\* The last tick approached its target under the ceiling max_accel
PointApproachedWith(max_accel) ==
  LET approached ==
        ApproachAngleWithAccel(obs.before, PointTargetAngle, max_accel, TimeElapsed)
  IN /\ m_point_state.angle = approached.angle
     /\ m_point_state.angular_velocity = approached.angular_velocity

\* C11: a tick with a hidden cursor leaves the point state all zero except
\* for the position (0, -1000 m, 0), whatever the state before, the title,
\* the aspect ratio and the fast-pointer flag: no approach has run.
C11_HiddenResets ==
  PointHiddenTick =>
    m_point_state = [MotionStateZero EXCEPT !.position = Vec3(0, -1000 * PositionScale, 0)]

\* A hidden tick that started from a turned, turning wiimote
C11_HiddenAfterTurning ==
  /\ PointHiddenTick
  /\ obs.before.angle # Vec3Zero
  /\ obs.before.angular_velocity # Vec3Zero
  /\ obs.given.fastPointer
  /\ obs.given.title = "S3AE5G"

\* C12 as stated: a visible tick approaches under TAU*50 whenever the
\* fast-pointer flag is set and under TAU*8 whenever it is clear.
C12_CeilingByFlag ==
  PointVisibleTick =>
    PointApproachedWith(IF obs.given.fastPointer THEN FastMaxAccel ELSE StandardMaxAccel)

\* C12 amended: a visible tick approaches under TAU*50 when the fast-pointer
\* flag is set and the title's aim correction was applied, under TAU*8 otherwise.
C12_CeilingByFlagAndAim ==
  PointVisibleTick =>
    PointApproachedWith(
      IF /\ obs.given.fastPointer
         /\ AimCorrection(obs.given.ir, obs.given.ir.cursor, obs.given.title,
                          obs.given.ratio).aim_corrected
      THEN FastMaxAccel ELSE StandardMaxAccel)

\* A visible tick with the flag set and no aim correction, where the two
\* ceilings give different states
C12_FlagWithoutAim ==
  /\ PointVisibleTick
  /\ obs.given.fastPointer
  /\ ~obs.given.ir.correctaim
  /\ ~PointApproachedWith(FastMaxAccel)

\* C19: the first visible tick after a hidden one puts the angle on the
\* target and zeroes the angular velocity.
C19_JumpAfterHidden ==
  (PointVisibleTick /\ obs.before.position[2] < 0) =>
    /\ m_point_state.angle = PointTargetAngle
    /\ m_point_state.angular_velocity = Vec3Zero

-----------------------------------------------------------------------------
(* ApproachPositionWithJerk: ticks from rest towards a constant target      *)
(* under a constant jerk limit.  The limits are multiples of 6, so that     *)
(* jerk * dt^2 / 2 and jerk * dt^3 / 6 are whole position units.  obs.before *)
(* is the state the last tick started from.                                  *)

MaxJerkTarget == 60

MaxJerkTicks == 40

\* max_jerk in position units per tick^3
JerkLimits == {6, 12, 24}

\* position_target.x; the other two axes start on their target
JerkTargets == (-MaxJerkTarget..MaxJerkTarget) \cup {-1000, 1000}

InitJerk ==
  /\ KinematicsAtRest
  /\ ReportingAtReset
  /\ OutputsAtRest
  /\ lastActiveGame = ""
  /\ lastRatio = 0
  /\ pc = ThreadsIdle
  /\ call = NoCall
  /\ input \in [position_target : {Vec3(t, 0, 0) : t \in JerkTargets},
                max_jerk : {Vec3(j, j, j) : j \in JerkLimits}]
  /\ obs = [ticks |-> 0, before |-> PositionalStateZero]

JerkTick ==
  /\ obs.ticks < MaxJerkTicks
  /\ m_shake_state' = ApproachPositionWithJerk(m_shake_state, input.position_target,
                                               input.max_jerk, TimeElapsed)
  /\ obs' = [ticks |-> obs.ticks + 1, before |-> m_shake_state]
  /\ UNCHANGED <<reporting, outputs, m_swing_state, m_tilt_state, m_point_state, m_imu_cursor_state,
                 lastActiveGame, lastRatio, input, pc, call>>

NextJerk == JerkTick

SpecJerk == InitJerk /\ [][NextJerk]_vars

\* change_in_position and offset of the last tick
JerkChange == JerkStep(obs.before, input.position_target, input.max_jerk,
                       TimeElapsed).change_in_position

JerkOffset == [i \in Axes |-> input.position_target[i] - obs.before.position[i]]

\* (change_in_position / offset) > 1.0 on axis i in the last tick
JerkOvershoot(i) == RatioAboveOne(JerkChange[i], JerkOffset[i])

\* The last tick carried axis i over its target: the position changed sides,
\* or it started on the target, moving, and went on
JerkPastTarget(i) ==
  LET before == input.position_target[i] - obs.before.position[i]
      after == input.position_target[i] - m_shake_state.position[i]
  IN \/ before * after < 0
     \/ before = 0 /\ after * obs.before.velocity[i] < 0

\* C14: on an axis whose projected change crosses the target (change / offset
\* > 1) the tick zeroes acceleration and velocity and puts the position on the
\* target; on every other axis the position advances by the projected change
\* and is not carried past the target.
C14_OvershootGuard ==
  obs.ticks > 0 =>
    \A i \in Axes :
      IF JerkOvershoot(i)
      THEN /\ m_shake_state.acceleration[i] = 0
           /\ m_shake_state.velocity[i] = 0
           /\ m_shake_state.position[i] = input.position_target[i]
      ELSE /\ m_shake_state.position[i] = obs.before.position[i] + JerkChange[i]
           /\ ~JerkPastTarget(i)

\* C15: in every state reached from rest the acceleration of each axis is at
\* most max_jerk * dt in magnitude, and no tick carries the position past the
\* target: it settles in one pass.
C15_BoundedSinglePass ==
  \A i \in Axes :
    /\ Abs(m_shake_state.acceleration[i]) <= input.max_jerk[i] * TimeElapsed
    /\ obs.ticks > 0 => ~JerkPastTarget(i)

-----------------------------------------------------------------------------
(* EmulateSwing over ticks: the stick is held in one place and moved to     *)
(* another at most MaxSwingMoves times.  obs.before is the state the last    *)
(* tick started from and obs.given the swing group it was called with.      *)

MaxSwingTicks == 20

MaxSwingMoves == 1

\* ControllerEmu::Force::GetState(): centre, one end of each axis of the x/y
\* circle, the two ends of the forward/backward axis, and left with forward
SwingStates ==
  LET d == PositionScale \div 2
  IN {Vec3(0, 0, 0), Vec3(d, 0, 0), Vec3(0, d, 0), Vec3(0, 0, d), Vec3(0, 0, -d),
      Vec3(d, 0, d)}

SwingGroups ==
  {[state |-> s, max_distance |-> PositionScale \div 2, twist_angle |-> PI \div 2,
    speed |-> 16, return_speed |-> 8] : s \in SwingStates}

\* xz_progress > 1 for the state that reaches the first clamp
SwingOutsideCircle(moved, swing_group) ==
  moved.position[1] * moved.position[1] + moved.position[3] * moved.position[3]
    > swing_group.max_distance * swing_group.max_distance

\* y_progress > max_y_progress || y_progress < -1
SwingOutsideDepth(moved, swing_group) ==
  \/ moved.position[2] > SwingMaxY(swing_group)
  \/ moved.position[2] < -swing_group.max_distance

\* The clamps that a tick from state applies
SwingClamps(state, swing_group) ==
  Bind(SwingApproach(state, swing_group, TimeElapsed),
       LAMBDA moved : {c \in {"circle", "depth"} :
                         \/ c = "circle" /\ SwingOutsideCircle(moved, swing_group)
                         \/ c = "depth" /\ SwingOutsideDepth(moved, swing_group)})

InitSwing ==
  /\ KinematicsAtRest
  /\ ReportingAtReset
  /\ OutputsAtRest
  /\ lastActiveGame = ""
  /\ lastRatio = 0
  /\ pc = ThreadsIdle
  /\ call = NoCall
  /\ input \in [swing : SwingGroups]
  /\ obs = [ticks |-> 0, moves |-> 0, clamped |-> {}]

\* obs.clamped: the clamps of the last tick
SwingTick ==
  /\ obs.ticks < MaxSwingTicks
  /\ m_swing_state' = EmulateSwing(m_swing_state, input.swing, TimeElapsed)
  /\ obs' = [obs EXCEPT !.ticks = @ + 1,
                         !.clamped = SwingClamps(m_swing_state, input.swing)]
  /\ UNCHANGED <<reporting, outputs, m_tilt_state, m_point_state, m_shake_state, m_imu_cursor_state,
                 lastActiveGame, lastRatio, input, pc, call>>

\* The user moves the stick between two updates
SwingMove ==
  /\ obs.moves < MaxSwingMoves
  /\ \E group \in SwingGroups \ {input.swing} : input' = [input EXCEPT !.swing = group]
  /\ obs' = [obs EXCEPT !.moves = @ + 1]
  /\ UNCHANGED <<reporting, outputs, kinematics, lastActiveGame, lastRatio, pc, call>>

NextSwing ==
  \/ SwingTick
  \/ SwingMove

SpecSwing == InitSwing /\ [][NextSwing]_vars

\* C13: after every EmulateSwing tick the lateral distance from the centre is
\* at most max_distance (to the two position units that the model's rounding
\* of the division by xz_progress can add), y is in
\* [-max_distance, (2 - cos(max_angle)) * max_distance], and the axes that the
\* tick clamped have zero velocity and acceleration.
C13_SwingEnvelope ==
  obs.ticks > 0 =>
    /\ m_swing_state.position[1] * m_swing_state.position[1]
         + m_swing_state.position[3] * m_swing_state.position[3]
       <= (input.swing.max_distance + 2) * (input.swing.max_distance + 2)
    /\ m_swing_state.position[2] >= -input.swing.max_distance
    /\ m_swing_state.position[2] <= SwingMaxY(input.swing)
    /\ "circle" \in obs.clamped =>
         \A i \in {1, 3} : /\ m_swing_state.velocity[i] = 0
                           /\ m_swing_state.acceleration[i] = 0
    /\ "depth" \in obs.clamped =>
         /\ m_swing_state.velocity[2] = 0
         /\ m_swing_state.acceleration[2] = 0

\* A tick that clamped the wiimote both on the circle and in depth
C13_ClampedBothWays == obs.clamped = {"circle", "depth"}

-----------------------------------------------------------------------------
(* EmulateTilt over ticks: the tilt stick moves between ticks              *)

MaxTiltTicks == 20

MaxTiltMoves == 1

\* ControllerEmu::Tilt::GetState() in quarters of full deflection: centre,
\* three quarters to either side, three quarters forward
TiltStates == {<<0, 0>>, <<3, 0>>, <<-3, 0>>, <<0, 3>>}

TiltGroups ==
  {[state |-> s, scale |-> 4, max_rotational_velocity |-> (7 * TAU) \div UPDATE_FREQ] :
     s \in TiltStates}

InitTilt ==
  /\ KinematicsAtRest
  /\ ReportingAtReset
  /\ OutputsAtRest
  /\ lastActiveGame = ""
  /\ lastRatio = 0
  /\ pc = ThreadsIdle
  /\ call = NoCall
  /\ input \in [tilt : TiltGroups]
  /\ obs = [ticks |-> 0, moves |-> 0, before |-> Vec3(0, 0, 0), handed |-> Vec3(0, 0, 0),
            target |-> Vec3(0, 0, 0)]

\* StepDynamics' call of EmulateTilt
\* obs.before: the angle before the tick; obs.handed: the angle after the wrap,
\* as ApproachAngleWithAccel receives it; obs.target: target_angle
TiltTick ==
  /\ obs.ticks < MaxTiltTicks
  /\ m_tilt_state' = EmulateTilt(m_tilt_state, input.tilt, TimeElapsed)
  /\ obs' = [obs EXCEPT !.ticks = @ + 1,
                        !.before = m_tilt_state.angle,
                        !.handed = TiltWrap(m_tilt_state.angle, TiltTargetAngle(input.tilt)),
                        !.target = TiltTargetAngle(input.tilt)]
  /\ UNCHANGED <<reporting, outputs, m_swing_state, m_point_state, m_shake_state, m_imu_cursor_state,
                 lastActiveGame, lastRatio, input, pc, call>>

\* The user moves the tilt stick between two ticks
TiltMove ==
  /\ obs.moves < MaxTiltMoves
  /\ \E tilt \in TiltGroups :
       /\ tilt # input.tilt
       /\ input' = [input EXCEPT !.tilt = tilt]
  /\ obs' = [obs EXCEPT !.moves = @ + 1]
  /\ UNCHANGED <<reporting, outputs, kinematics, lastActiveGame, lastRatio, pc, call>>

NextTilt == TiltTick \/ TiltMove

SpecTilt == InitTilt /\ [][NextTilt]_vars

\* C16: after the unwrapping step of EmulateTilt, the angle handed to the
\* approach lies in (-pi, pi] on each axis and is within pi of the target
C16_WrappedIntoHalfTurn ==
  obs.ticks > 0 =>
    \A i \in Axes : /\ -PI < obs.handed[i] /\ obs.handed[i] <= PI
                    /\ Abs(obs.handed[i] - obs.target[i]) <= PI

-----------------------------------------------------------------------------
(* EmulateIMUCursor over ticks: the gyroscope's reading and the recenter   *)
(* button change from tick to tick                                         *)

MaxIMUTicks == 3

\* IMUGyroscope::GetState(): no data, a fast turn about the vertical axis to
\* either side (15 rad/s), a turn about the lateral axis (5 rad/s)
IMUAngularVelocities ==
  {<<>>, <<Vec3(0, 0, 3000)>>, <<Vec3(0, 0, -3000)>>, <<Vec3(1000, 0, 0)>>}

IMUCursorInputs ==
  {[enabled |-> TRUE, ang_vel |-> g, accel |-> Vec3(0, 0, FixedOne), accel_weight |-> 2,
    total_yaw |-> DeciDegrees(150), recenter |-> r] :
     g \in IMUAngularVelocities, r \in BOOLEAN}

InitIMU ==
  /\ KinematicsAtRest
  /\ ReportingAtReset
  /\ OutputsAtRest
  /\ lastActiveGame = ""
  /\ lastRatio = 0
  /\ pc = ThreadsIdle
  /\ call = NoCall
  /\ input \in [imu : IMUCursorInputs]
  /\ obs = [ticks |-> 0, before |-> IMUCursorStateZero, given |-> input.imu]

\* StepDynamics' call of EmulateIMUCursor; the inputs change before the next tick
\* obs.before, obs.given: the state and the inputs the tick was called with
IMUTick ==
  /\ obs.ticks < MaxIMUTicks
  /\ m_imu_cursor_state' = EmulateIMUCursor(m_imu_cursor_state, input.imu, TimeElapsed)
  /\ \E imu \in IMUCursorInputs : input' = [input EXCEPT !.imu = imu]
  /\ obs' = [ticks |-> obs.ticks + 1, before |-> m_imu_cursor_state, given |-> input.imu]
  /\ UNCHANGED <<reporting, outputs, m_swing_state, m_tilt_state, m_point_state, m_shake_state,
                 lastActiveGame, lastRatio, pc, call>>

NextIMU == IMUTick

SpecIMU == InitIMU /\ [][NextIMU]_vars

\* The last tick had pointing enabled and gyro data
IMUIntegratingTick == obs.ticks > 0 /\ obs.given.enabled /\ obs.given.ang_vel # <<>>

\* The rotation of the last tick before its yaw was clamped
IMULastFiltered == IMUFiltered(obs.before, obs.given, TimeElapsed)

\* Resolution of a yaw read back from a quaternion whose components are
\* multiples of 1 / FixedOne: 5 / FixedOne rad
YawResolution == (5 * AngleScale) \div FixedOne

\* C17: after a tick with pointing enabled and gyro data the yaw of the
\* stored rotation lies in [-TotalYaw/2, +TotalYaw/2]; with recenter pressed
\* the pitch of the tick is stored as recentered_pitch and the yaw is 0
C17_YawClampedAndRecentered ==
  IMUIntegratingTick =>
    LET yaw == GetYaw(m_imu_cursor_state.rotation)
        max_yaw == RoundDiv(obs.given.total_yaw, 2)
    IN /\ Abs(yaw) <= max_yaw + YawResolution
       /\ obs.given.recenter =>
            /\ Abs(yaw) <= YawResolution
            /\ m_imu_cursor_state.recentered_pitch = GetPitch(IMULastFiltered)

\* A tick whose gyro data turned the cursor beyond the yaw range
C17_TurnedBeyondRange ==
  /\ IMUIntegratingTick
  /\ ~obs.given.recenter
  /\ Abs(GetYaw(IMULastFiltered)) > RoundDiv(obs.given.total_yaw, 2) + YawResolution

\* The rotation of the last tick after its yaw was adjusted, before it was
\* normalized
IMULastAdjusted == IMUClampYaw(obs.before, obs.given, IMULastFiltered, IMUAdjustYaw).rotation

\* Dot product of a quaternion with itself
QuaternionLengthSquared(q) == q[1] * q[1] + q[2] * q[2] + q[3] * q[3] + q[4] * q[4]

\* C18: after every EmulateIMUCursor tick the stored rotation has unit norm,
\* to the resolution of the components (1 / FixedOne)
C18_UnitNorm ==
  obs.ticks > 0 =>
    /\ (FixedOne - 1) * (FixedOne - 1) <= QuaternionLengthSquared(m_imu_cursor_state.rotation)
    /\ QuaternionLengthSquared(m_imu_cursor_state.rotation) <= (FixedOne + 1) * (FixedOne + 1)

\* A tick that integrated gyro data into a rotation whose norm the
\* normalization had to restore
C18_NormRestored ==
  /\ IMUIntegratingTick
  /\ obs.ticks > 1
  /\ IMULastAdjusted # m_imu_cursor_state.rotation

-----------------------------------------------------------------------------
(* Wiimote::Update: the reports of one update.  The operators below work   *)
(* on w, the record of the members Update reads and writes:                *)
(* [m_status, m_reporting_mode, m_read_request, m_extension_port, reports] *)

MaxUpdates == 3

\* Largest size of a read request of the host, in bytes
MaxReadSize == 20

\* void Wiimote::HandleExtensionSwap(ExtensionNumber, bool): the desired
\* extension is attached to, or the present one detached from, the port
HandleExtensionSwap(w, desired_extension) ==
  [w EXCEPT !.m_extension_port.connected = desired_extension]

\* void Wiimote::HandleRequestStatus(const OutputReportRequestStatus&): the
\* status struct is brought up to date and sent
HandleRequestStatus(w) ==
  [w EXCEPT !.m_status.extension = w.m_extension_port.connected,
            !.reports = Append(@, "Status")]

\* bool Wiimote::ProcessExtensionPortEvent(): [w, sent], sent as returned
ProcessExtensionPortEvent(w) ==
  IF w.m_extension_port.connected = w.m_status.extension
  THEN [w |-> w, sent |-> FALSE]
  ELSE \* FYI: This happens even during a read request which continues after the
       \* status report is sent.
       [w |-> HandleRequestStatus([w EXCEPT !.m_reporting_mode = "ReportDisabled"]),
        sent |-> TRUE]

\* bool Wiimote::ProcessReadDataRequest(): up to 16 bytes of the read request
\* are sent in a reply; [w, sent], sent as returned
ProcessReadDataRequest(w) ==
  LET bytes_to_read == Min(16, w.m_read_request.size)
  IN IF bytes_to_read = 0
     THEN [w |-> w, sent |-> FALSE]
     ELSE [w |-> [w EXCEPT !.m_read_request.size = @ - bytes_to_read,
                           !.reports = Append(@, "ReadDataReply")],
           sent |-> TRUE]

\* A plausible slip: the disabled mode is not looked at
SendDataReport_WhenDisabled(w) ==
  [w EXCEPT !.reports = Append(@, w.m_reporting_mode)]

\* void Wiimote::SendDataReport(const DesiredWiimoteState&)
SendDataReport(w) ==
  IF w.m_reporting_mode = "ReportDisabled"
  THEN \* The wiimote is in this disabled after an extension change.
       \* Input reports are not sent, even on button change.
       w
  ELSE [w EXCEPT !.reports = Append(@, w.m_reporting_mode),
                 \* The interleaved reporting modes toggle back and forth:
                 !.m_reporting_mode = IF @ = "ReportInterleave1" THEN "ReportInterleave2"
                                      ELSE IF @ = "ReportInterleave2" THEN "ReportInterleave1"
                                      ELSE @]

\* A plausible slip: the update goes on after the status report
Update_NoReturnAfterPortEvent(w, desired_extension) ==
  LET port == ProcessExtensionPortEvent(HandleExtensionSwap(w, desired_extension))
      read == ProcessReadDataRequest(port.w)
  IN IF read.sent THEN read.w ELSE SendDataReport(read.w)

\* void Wiimote::Update(const WiimoteEmu::DesiredWiimoteState& target_state)
\* desired_extension: target_state names an extension other than NONE
Update(w, desired_extension) ==
  LET port == ProcessExtensionPortEvent(HandleExtensionSwap(w, desired_extension))
      read == ProcessReadDataRequest(port.w)
  IN IF port.sent
     THEN \* Extension port event occurred. Don't send any other reports.
          port.w
     ELSE IF read.sent
     THEN \* Read requests suppress normal input reports
          read.w
     ELSE SendDataReport(read.w)

ReportingModes == {"ReportCore", "ReportInterleave1", "ReportInterleave2"}

InitUpdate ==
  /\ KinematicsAtRest
  /\ ReportingAtReset
  /\ OutputsAtRest
  /\ lastActiveGame = ""
  /\ lastRatio = 0
  /\ pc = ThreadsIdle
  /\ call = NoCall
  /\ input \in [extension : BOOLEAN]
  /\ obs = [updates |-> 0, read_size |-> 0, extension_changed |-> FALSE]

\* One Update; the user may choose another extension before the next one
\* obs.read_size: m_read_request.size when the update began;
\* obs.extension_changed: the port's device differed from m_status.extension
UpdateTick ==
  /\ obs.updates < MaxUpdates
  /\ LET w == Update([m_status |-> m_status, m_reporting_mode |-> m_reporting_mode,
                      m_read_request |-> m_read_request,
                      m_extension_port |-> m_extension_port, reports |-> <<>>],
                     input.extension)
     IN /\ m_status' = w.m_status
        /\ m_reporting_mode' = w.m_reporting_mode
        /\ m_read_request' = w.m_read_request
        /\ m_extension_port' = w.m_extension_port
        /\ reports' = w.reports
  /\ obs' = [updates |-> obs.updates + 1, read_size |-> m_read_request.size,
             extension_changed |-> input.extension # m_status.extension]
  /\ \E extension \in BOOLEAN : input' = [input EXCEPT !.extension = extension]
  /\ UNCHANGED <<outputs, kinematics, lastActiveGame, lastRatio, pc, call>>

\* The host's output report "read data": a read request is stored
HostReadData ==
  /\ obs.updates < MaxUpdates
  /\ m_read_request.size = 0
  /\ \E size \in {8, MaxReadSize} : m_read_request' = [size |-> size]
  /\ UNCHANGED <<outputs, kinematics, m_status, m_reporting_mode, m_extension_port, reports,
                 lastActiveGame, lastRatio, input, pc, call, obs>>

\* The host's output report "report mode"
HostReportMode ==
  /\ obs.updates < MaxUpdates
  /\ \E mode \in ReportingModes \ {m_reporting_mode} : m_reporting_mode' = mode
  /\ UNCHANGED <<outputs, kinematics, m_status, m_read_request, m_extension_port, reports,
                 lastActiveGame, lastRatio, input, pc, call, obs>>

NextUpdate == UpdateTick \/ HostReadData \/ HostReportMode

SpecUpdate == InitUpdate /\ [][NextUpdate]_vars

\* The reports of the last Update of each kind
StatusReports == SelectSeq(reports, LAMBDA r : r = "Status")

ReadDataReplies == SelectSeq(reports, LAMBDA r : r = "ReadDataReply")

DataReports == SelectSeq(reports, LAMBDA r : r \notin {"Status", "ReadDataReply"})

\* C20: an Update produces at most one kind of report: with a status report
\* (an extension port event) neither a read-data reply nor a data report, and
\* with a read-data reply no data report
C20_OneKindOfReport ==
  /\ obs.extension_changed <=> StatusReports # <<>>
  /\ StatusReports # <<>> => ReadDataReplies = <<>> /\ DataReports = <<>>
  /\ ReadDataReplies # <<>> => DataReports = <<>>
  /\ Len(reports) <= 1

\* An Update that sent the status report while a read request was waiting
C20_StatusWithReadPending ==
  /\ obs.updates > 0
  /\ obs.read_size > 0
  /\ reports = <<"Status">>

\* C21: an Update that finds the port's device different from the extension
\* bit of the status sets the reporting mode to ReportDisabled and sends a
\* status report; an Update that begins in ReportDisabled sends no data
\* report and leaves the mode disabled
C21_DisabledAfterPortEvent ==
  [][obs'.updates > obs.updates =>
       /\ input.extension # m_status.extension =>
            m_reporting_mode' = "ReportDisabled" /\ reports' = <<"Status">>
       /\ m_reporting_mode = "ReportDisabled" =>
            DataReports' = <<>> /\ m_reporting_mode' = "ReportDisabled"]_vars

\* An Update after the port event, with no read request waiting, that sent
\* nothing
C21_SilentUpdate ==
  /\ obs.updates > 1
  /\ ~obs.extension_changed
  /\ obs.read_size = 0
  /\ m_reporting_mode = "ReportDisabled"
  /\ reports = <<>>

-----------------------------------------------------------------------------
(* Wiimote::threadOutputs: the serial port of the recoil device and the    *)
(* scheduling of recoils.  The operators below work on t, the record of    *)
(* the members the thread reads and writes, with the results of one        *)
(* iteration: output_signal as <<>> for "", <<"gunshot">>,                  *)
(* <<"machinegun_on", 160>> for "machinegun_on:160", <<"machinegun_off">>,  *)
(* <<"multishot", n, delay>> for "multishot:n:delay", and doRecoil.        *)
(* Times are in units of 10 ms, the sleep of an active iteration.          *)

\* Microseconds of the code in a unit of time
TimeUnit == 10000

\* const long max_time_lastPress = 100000;
max_time_lastPress == 100000 \div TimeUnit

\* std::this_thread::sleep_for(std::chrono::milliseconds(1000)), ...(10)
IdleSleep == (1000 * 1000) \div TimeUnit

ActiveSleep == (10 * 1000) \div TimeUnit

\* WriteFile(serialPort, ...): the message reaches the port of the handle
WriteFile(os_ports, handle, message) ==
  [os_ports EXCEPT ![handle].written = Append(@, message)]

\* CloseHandle(serialPort)
CloseHandle(os_ports, handle) == [os_ports EXCEPT ![handle].open = FALSE]

\* void Wiimote::SendComMessage(const std::string& message)
SendComMessage(t, message) ==
  IF t.serialPort # INVALID_HANDLE_VALUE
  THEN [t EXCEPT !.ports = WriteFile(t.ports, t.serialPort, message)]
  ELSE t

\* The port is closed without the end message
ClosePort_WithoutEnd(t) ==
  IF t.serialPort # INVALID_HANDLE_VALUE
  THEN [t EXCEPT !.ports = CloseHandle(@, t.serialPort),
                 !.serialPort = INVALID_HANDLE_VALUE]
  ELSE t

\* if (serialPort != INVALID_HANDLE_VALUE) { SendComMessage("E"); CloseHandle(serialPort);
\*                                           serialPort = INVALID_HANDLE_VALUE; }
ClosePort(t) ==
  IF t.serialPort # INVALID_HANDLE_VALUE
  THEN [SendComMessage(t, "E") EXCEPT !.ports = CloseHandle(@, t.serialPort),
                                      !.serialPort = INVALID_HANDLE_VALUE]
  ELSE t

\* What the operating system may answer to CreateFileA, GetCommState and
\* SetCommState, in the order of the calls
PortOutcomes ==
  [create : BOOLEAN, get_state : BOOLEAN, set_state : BOOLEAN]

\* threadOutputs, the opening of the port of a title: gun4irComPort is the
\* COM-port setting of the IR group, outcome one of PortOutcomes
OpenPort(t, gun4irComPort, outcome) ==
  LET handle == Len(t.ports) + 1
      opened == [t EXCEPT !.serialPort = handle,
                          !.ports = Append(@, [open |-> TRUE, configured |-> FALSE,
                                               written |-> <<>>])]
      configured == IF outcome.set_state
                    THEN [opened EXCEPT !.ports[handle].configured = TRUE]
                    ELSE opened
      validcom == gun4irComPort > 0 /\ outcome.create /\ outcome.get_state
                    /\ outcome.set_state
  IN IF gun4irComPort > 0 /\ outcome.create
     THEN IF validcom
          THEN SendComMessage(configured, "S6")
          ELSE [configured EXCEPT !.serialPort = INVALID_HANDLE_VALUE]
     ELSE [t EXCEPT !.serialPort = INVALID_HANDLE_VALUE]

\* threadOutputs, if (lastActiveGame != title) { ... }
TitleChange(t, title, widescreen, gun4irComPort, outcome) ==
  LET reset == [ClosePort(t) EXCEPT
                  !.lastActiveGame = title,
                  !.lastRatio = IF title # "" /\ title # "00000000" /\ widescreen
                                THEN 1 ELSE 0,
                  !.triggerIsActive = FALSE,
                  !.triggerLastPress = 0,
                  !.fullAutoActive = FALSE,
                  !.activeRecoil = FALSE]
  IN IF title # "" /\ title # "00000000"
     THEN OpenPort(reset, gun4irComPort, outcome)
     ELSE reset

\* threadOutputs, "GunBlade": if (title == "SQDE8P" || title == "SQDP8P") { ... }
DetectGunBlade(t) ==
  LET off == IF t.fullAutoActive /\ ~t.triggerIsActive
             THEN [t EXCEPT !.output_signal = <<"machinegun_off">>, !.fullAutoActive = FALSE]
             ELSE t
  IN IF off.triggerIsActive /\ ~off.fullAutoActive
     THEN [off EXCEPT !.fullAutoActive = TRUE, !.triggerLastPress = 0,
                      !.output_signal = <<"machinegun_on", 160>>]
     ELSE off

\* threadOutputs, "Martian Panic": if (title == "RQ7E20") { ... }
DetectMartianPanic(t, m_index, timestamp) ==
  LET max_player == 4
      valid_query == m_index <= max_player - 1
  IN IF valid_query /\ timestamp - t.triggerLastPress < max_time_lastPress
     THEN [t EXCEPT !.output_signal = <<"gunshot">>, !.triggerLastPress = 0]
     ELSE t

\* threadOutputs, the blocks of the titles
Detect(t, title, m_index, timestamp) ==
  IF title \in {"SQDE8P", "SQDP8P"} THEN DetectGunBlade(t)
  ELSE IF title = "RQ7E20" THEN DetectMartianPanic(t, m_index, timestamp)
  ELSE t

\* delayshot *= 1000: milliseconds to the unit of time
DelayShot(milliseconds) == (milliseconds * 1000) \div TimeUnit

\* A plausible slip: switching full-auto off leaves the repeat delay
Schedule_OffKeepsDelay(t, timestamp) ==
  IF t.output_signal # <<>>
  THEN IF t.output_signal = <<"gunshot">>
       THEN [t EXCEPT !.nextGunShot = 0, !.fullAutoDelay = 0, !.queueSizeGunshot = 0,
                      !.multishotDelay = 0, !.doRecoil = TRUE]
       ELSE IF t.output_signal[1] = "multishot"
       THEN [t EXCEPT !.nextGunShot = timestamp + DelayShot(t.output_signal[3]),
                      !.fullAutoDelay = 0,
                      !.queueSizeGunshot = t.output_signal[2] - 1,
                      !.multishotDelay = DelayShot(t.output_signal[3]),
                      !.doRecoil = TRUE]
       ELSE IF t.output_signal[1] = "machinegun_on"
       THEN [t EXCEPT !.nextGunShot = timestamp + DelayShot(t.output_signal[2]),
                      !.fullAutoDelay = DelayShot(t.output_signal[2]),
                      !.queueSizeGunshot = 0,
                      !.doRecoil = TRUE]
       ELSE IF t.output_signal = <<"machinegun_off">>
       THEN [t EXCEPT !.nextGunShot = 0]
       ELSE t
  ELSE LET queued == IF t.queueSizeGunshot > 0 /\ timestamp > t.nextGunShot
                     THEN [t EXCEPT !.doRecoil = TRUE,
                                    !.queueSizeGunshot = @ - 1,
                                    !.nextGunShot = IF t.queueSizeGunshot - 1 > 0
                                                    THEN timestamp + t.multishotDelay
                                                    ELSE @]
                     ELSE t
       IN IF queued.fullAutoDelay > 0 /\ timestamp > queued.nextGunShot
          THEN [queued EXCEPT !.doRecoil = TRUE,
                              !.nextGunShot = timestamp + queued.fullAutoDelay]
          ELSE queued

\* threadOutputs, bool doRecoil = false; if (output_signal != "") { ... } else { ... }
Schedule(t, timestamp) ==
  IF t.output_signal # <<>>
  THEN IF t.output_signal = <<"gunshot">>
       THEN [t EXCEPT !.nextGunShot = 0, !.fullAutoDelay = 0, !.queueSizeGunshot = 0,
                      !.multishotDelay = 0, !.doRecoil = TRUE]
       ELSE IF t.output_signal[1] = "multishot"
       THEN [t EXCEPT !.nextGunShot = timestamp + DelayShot(t.output_signal[3]),
                      !.fullAutoDelay = 0,
                      !.queueSizeGunshot = t.output_signal[2] - 1,
                      !.multishotDelay = DelayShot(t.output_signal[3]),
                      !.doRecoil = TRUE]
       ELSE IF t.output_signal[1] = "machinegun_on"
       THEN [t EXCEPT !.nextGunShot = timestamp + DelayShot(t.output_signal[2]),
                      !.fullAutoDelay = DelayShot(t.output_signal[2]),
                      !.queueSizeGunshot = 0,
                      !.doRecoil = TRUE]
       ELSE IF t.output_signal = <<"machinegun_off">>
       THEN [t EXCEPT !.nextGunShot = 0, !.fullAutoDelay = 0]
       ELSE t
  ELSE LET queued == IF t.queueSizeGunshot > 0 /\ timestamp > t.nextGunShot
                     THEN [t EXCEPT !.doRecoil = TRUE,
                                    !.queueSizeGunshot = @ - 1,
                                    !.nextGunShot = IF t.queueSizeGunshot - 1 > 0
                                                    THEN timestamp + t.multishotDelay
                                                    ELSE @]
                     ELSE t
       IN IF queued.fullAutoDelay > 0 /\ timestamp > queued.nextGunShot
          THEN [queued EXCEPT !.doRecoil = TRUE,
                              !.nextGunShot = timestamp + queued.fullAutoDelay]
          ELSE queued

\* threadOutputs, if (doRecoil) { ... }
Recoil(t, timestamp) ==
  IF t.doRecoil
  THEN SendComMessage([t EXCEPT !.lastGunShot = timestamp], "F0x2x0x")
  ELSE t

\* threadOutputs, one iteration of the loop after the change of title, from
\* "if (!activeRecoil && triggerLastPress > 0)" to the sleep; changed is the
\* record after the block of the change of title
Iteration(changed, title, m_index, timestamp) ==
  LET armed == [changed EXCEPT !.activeRecoil = @ \/ changed.triggerLastPress > 0,
                               !.output_signal = <<>>, !.doRecoil = FALSE]
  IN IF ~armed.activeRecoil THEN armed
     ELSE Recoil(Schedule(Detect(armed, title, m_index, timestamp), timestamp), timestamp)

\* Bounds of a run of the thread: iterations of the loop while titles are
\* switched, and while one title plays
MaxIterations == 5

MaxFullAutoIterations == 24

MaxLifetimeIterations == 3

MaxPresses == 2

MaxTitleSwitches == 1

\* SConfig::GetGameID(): no game, GunBlade, Martian Panic
OutputTitles == {"", "SQDE8P", "RQ7E20"}

\* m_ir->m_gun4ircom_setting.GetValue(): no port, COM3
ComPorts == {0, 3}

\* The calls of OpenPort that differ: CreateFileA fails, or it succeeds and
\* GetCommState and SetCommState succeed or fail
OpenOutcomes ==
  {[create |-> FALSE, get_state |-> FALSE, set_state |-> FALSE]}
    \cup {o \in PortOutcomes : o.create}

\* The members threadOutputs reads and writes, as a record
ThreadMembers ==
  [serialPort |-> serialPort, ports |-> ports, lastActiveGame |-> lastActiveGame,
   lastRatio |-> lastRatio, triggerIsActive |-> triggerIsActive,
   triggerLastPress |-> triggerLastPress, activeRecoil |-> activeRecoil,
   fullAutoActive |-> fullAutoActive, nextGunShot |-> nextGunShot,
   fullAutoDelay |-> fullAutoDelay, queueSizeGunshot |-> queueSizeGunshot,
   multishotDelay |-> multishotDelay, lastGunShot |-> lastGunShot,
   output_signal |-> <<>>, doRecoil |-> FALSE]

\* The members after the step are those of the record t
ThreadMembersBecome(t) ==
  /\ serialPort' = t.serialPort
  /\ ports' = t.ports
  /\ lastActiveGame' = t.lastActiveGame
  /\ lastRatio' = t.lastRatio
  /\ triggerIsActive' = t.triggerIsActive
  /\ triggerLastPress' = t.triggerLastPress
  /\ activeRecoil' = t.activeRecoil
  /\ fullAutoActive' = t.fullAutoActive
  /\ nextGunShot' = t.nextGunShot
  /\ fullAutoDelay' = t.fullAutoDelay
  /\ queueSizeGunshot' = t.queueSizeGunshot
  /\ multishotDelay' = t.multishotDelay
  /\ lastGunShot' = t.lastGunShot

\* Wiimote::Wiimote() has started the thread (myThread = new std::thread(...))
\* and not yet created the control groups; a title may be running
OutputsAtConstruction ==
  /\ quitThread = FALSE
  /\ serialPort = INVALID_HANDLE_VALUE
  /\ m_ir = "uninitialized"
  /\ triggerIsActive = FALSE
  /\ triggerLastPress = 0
  /\ activeRecoil = FALSE
  /\ fullAutoActive = FALSE
  /\ nextGunShot = 0
  /\ fullAutoDelay = 0
  /\ queueSizeGunshot = 0
  /\ multishotDelay = 0
  /\ lastGunShot = 0
  /\ ports = <<>>
  /\ now = IdleSleep
  /\ lastActiveGame = ""
  /\ lastRatio = 0
  /\ pc = [thr |-> "run", ctor |-> "thread_started", dtor |-> "none", sleep |-> 0]
  /\ call = NoCall
  /\ obs = [iterations |-> 0, presses |-> 0, title_changes |-> 0, output_signal |-> <<>>,
            doRecoil |-> FALSE, gap |-> 0, mode |-> <<>>,
            title_changed |-> FALSE, wild_read |-> FALSE]

\* A title may be running when the Wiimote is constructed
InitOutputs ==
  /\ KinematicsAtRest
  /\ ReportingAtReset
  /\ OutputsAtConstruction
  /\ input \in [title : OutputTitles, widescreen : {FALSE}, comport : ComPorts,
                m_index : {0}, run_length : {MaxIterations}]

\* A crash of the process ends everything
Alive == pc.thr # "crashed"

\* Wiimote::Wiimote(), from the buttons group to the end: m_ir is created
CtorCreateGroups ==
  /\ Alive
  /\ pc.ctor = "thread_started"
  /\ m_ir' = "Cursor"
  /\ pc' = [pc EXCEPT !.ctor = "done"]
  /\ UNCHANGED <<reporting, kinematics, quitThread, serialPort, recoil, ports, now,
                 lastActiveGame, lastRatio, input, call, obs>>

\* The thread leaves the loop and returns with its port open
ThreadQuit_LeavesPortOpen ==
  /\ Alive
  /\ pc.thr = "run"
  /\ quitThread
  /\ pc' = [pc EXCEPT !.thr = "done"]
  /\ UNCHANGED <<reporting, kinematics, outputs, lastActiveGame, lastRatio, input, call, obs>>

\* threadOutputs: if (quitThread) break; and the code after the loop
ThreadQuit ==
  /\ Alive
  /\ pc.thr = "run"
  /\ quitThread
  /\ ThreadMembersBecome(ClosePort(ThreadMembers))
  /\ pc' = [pc EXCEPT !.thr = "done"]
  /\ UNCHANGED <<reporting, kinematics, quitThread, m_ir, now, input, call, obs>>

\* What an iteration leaves for the properties: its signal and recoil, the
\* time since the recoil before, the last signal of the title, whether the
\* title changed
Observed(t, title_changed, wild_read) ==
  [obs EXCEPT !.iterations = @ + 1,
              !.output_signal = t.output_signal,
              !.doRecoil = t.doRecoil,
              !.gap = IF t.doRecoil THEN now - lastGunShot ELSE 0,
              !.mode = IF title_changed THEN <<>>
                       ELSE IF t.output_signal # <<>> THEN t.output_signal ELSE @,
              !.title_changed = title_changed,
              !.wild_read = @ \/ wild_read]

\* threadOutputs: one iteration of the loop up to its sleep.  Reading the
\* COM-port setting through m_ir before the constructor has created the group
\* is a read through an uninitialized pointer: any value, or a crash.
ThreadIterate ==
  /\ Alive
  /\ pc.thr = "run"
  /\ ~quitThread
  /\ obs.iterations < input.run_length
  /\ LET title == input.title
         title_changed == lastActiveGame # title
         reads_m_ir == title_changed /\ title # "" /\ title # "00000000"
         wild_read == reads_m_ir /\ m_ir # "Cursor"
     IN \/ /\ wild_read
           /\ pc' = [pc EXCEPT !.thr = "crashed"]
           /\ obs' = [obs EXCEPT !.wild_read = TRUE]
           /\ UNCHANGED <<serialPort, recoil, ports, lastActiveGame, lastRatio>>
        \/ \E gun4irComPort \in IF wild_read THEN ComPorts ELSE {input.comport},
              outcome \in IF reads_m_ir THEN OpenOutcomes
                          ELSE {CHOOSE o \in OpenOutcomes : ~o.create} :
             LET changed == IF title_changed
                            THEN TitleChange(ThreadMembers, title, input.widescreen,
                                             gun4irComPort, outcome)
                            ELSE ThreadMembers
                 t == Iteration(changed, title, input.m_index, now)
             IN /\ ThreadMembersBecome(t)
                /\ pc' = [pc EXCEPT !.thr = "sleep",
                                    !.sleep = IF t.activeRecoil THEN ActiveSleep
                                              ELSE IdleSleep]
                /\ obs' = Observed(t, title_changed, wild_read)
  /\ UNCHANGED <<reporting, kinematics, quitThread, m_ir, now, input, call>>

\* std::this_thread::sleep_for(...) returns
ThreadWake ==
  /\ Alive
  /\ pc.thr = "sleep"
  /\ now' = now + pc.sleep
  /\ pc' = [pc EXCEPT !.thr = "run"]
  /\ UNCHANGED <<reporting, kinematics, quitThread, serialPort, m_ir, recoil, ports,
                 lastActiveGame, lastRatio, input, call, obs>>

\* BuildDesiredWiimoteState: if (target_state->buttons.b) { if (!triggerIsActive) ... }
PressTrigger ==
  /\ Alive
  /\ pc.ctor = "done" /\ pc.dtor = "none"
  /\ obs.presses < MaxPresses
  /\ ~triggerIsActive
  /\ triggerIsActive' = TRUE
  /\ triggerLastPress' = now
  /\ obs' = [obs EXCEPT !.presses = @ + 1]
  /\ UNCHANGED <<reporting, kinematics, quitThread, serialPort, m_ir, activeRecoil,
                 fullAutoActive, nextGunShot, fullAutoDelay, queueSizeGunshot,
                 multishotDelay, lastGunShot, ports, now, lastActiveGame, lastRatio,
                 input, pc, call>>

\* BuildDesiredWiimoteState: else { if (triggerIsActive) ... }
ReleaseTrigger ==
  /\ Alive
  /\ pc.ctor = "done" /\ pc.dtor = "none"
  /\ triggerIsActive
  /\ triggerIsActive' = FALSE
  /\ UNCHANGED <<reporting, kinematics, quitThread, serialPort, m_ir, triggerLastPress,
                 activeRecoil, fullAutoActive, nextGunShot, fullAutoDelay,
                 queueSizeGunshot, multishotDelay, lastGunShot, ports, now,
                 lastActiveGame, lastRatio, input, pc, call, obs>>

\* The emulator starts or stops a title
SwitchTitle ==
  /\ Alive
  /\ obs.title_changes < MaxTitleSwitches
  /\ \E title \in OutputTitles \ {input.title} : input' = [input EXCEPT !.title = title]
  /\ obs' = [obs EXCEPT !.title_changes = @ + 1]
  /\ UNCHANGED <<reporting, kinematics, outputs, lastActiveGame, lastRatio, pc, call>>

\* Wiimote::~Wiimote(): quitThread = true;
DtorQuit ==
  /\ Alive
  /\ pc.ctor = "done" /\ pc.dtor = "none"
  /\ quitThread' = TRUE
  /\ pc' = [pc EXCEPT !.dtor = "join"]
  /\ UNCHANGED <<reporting, kinematics, serialPort, m_ir, recoil, ports, now,
                 lastActiveGame, lastRatio, input, call, obs>>

\* Wiimote::~Wiimote(): myThread->join() returns
DtorJoin ==
  /\ Alive
  /\ pc.dtor = "join"
  /\ pc.thr = "done"
  /\ pc' = [pc EXCEPT !.dtor = "done"]
  /\ UNCHANGED <<reporting, kinematics, outputs, lastActiveGame, lastRatio, input, call, obs>>

ThreadStep == ThreadQuit \/ ThreadIterate \/ ThreadWake

NextOutputs ==
  \/ CtorCreateGroups
  \/ ThreadQuit
  \/ ThreadIterate
  \/ ThreadWake
  \/ PressTrigger
  \/ ReleaseTrigger
  \/ SwitchTitle
  \/ DtorQuit
  \/ DtorJoin

SpecOutputs == InitOutputs /\ [][NextOutputs]_vars

\* The same object watched over a shorter run, for its end
InitLifetime ==
  /\ KinematicsAtRest
  /\ ReportingAtReset
  /\ OutputsAtConstruction
  /\ input \in [title : OutputTitles, widescreen : {FALSE}, comport : ComPorts,
                m_index : {0}, run_length : {MaxLifetimeIterations}]

\* The thread is scheduled and its sleeps end; join returns once it is through
SpecLifetime ==
  InitLifetime /\ [][NextOutputs]_vars /\ WF_vars(ThreadStep) /\ WF_vars(DtorJoin)

\* GunBlade is running, the constructor is through and the thread has not yet
\* seen the title
InitFullAuto ==
  /\ KinematicsAtRest
  /\ ReportingAtReset
  /\ OutputsAtRest
  /\ lastActiveGame = ""
  /\ lastRatio = 0
  /\ pc = [thr |-> "sleep", ctor |-> "done", dtor |-> "none", sleep |-> IdleSleep]
  /\ call = NoCall
  /\ input \in [title : {"SQDE8P"}, widescreen : {FALSE}, comport : ComPorts,
                m_index : {0}, run_length : {MaxFullAutoIterations}]
  /\ obs = [iterations |-> 0, presses |-> 0, title_changes |-> 0, output_signal |-> <<>>,
            doRecoil |-> FALSE, gap |-> 0, mode |-> <<>>,
            title_changed |-> FALSE, wild_read |-> FALSE]

NextFullAuto ==
  \/ ThreadIterate
  \/ ThreadWake
  \/ PressTrigger
  \/ ReleaseTrigger

SpecFullAuto == InitFullAuto /\ [][NextFullAuto]_vars

\* ---- Serial port protocol, handles and the life of the thread ----

Last(messages) == messages[Len(messages)]

\* The messages are the beginning of 'S6', any number of 'F0x2x0x', 'E'
IsProtocolPrefix(written) ==
  \A i \in 1..Len(written) :
    /\ (i = 1) <=> (written[i] = "S6")
    /\ (i > 1 /\ i < Len(written)) => written[i] = "F0x2x0x"
    /\ (i > 1 /\ i = Len(written)) => written[i] \in {"F0x2x0x", "E"}

\* C22: on every port the thread opened the messages are 'S6', then recoil
\* messages, then 'E': the port the thread holds is open and configured and
\* has received 'S6' and no 'E', a port it does not hold has received nothing
\* or is closed, and a closed port has received 'E' as its last message
C22_PortProtocol ==
  \A handle \in 1..Len(ports) :
    LET port == ports[handle]
    IN /\ IsProtocolPrefix(port.written)
       /\ handle = serialPort =>
            /\ port.open /\ port.configured
            /\ port.written # <<>> /\ Last(port.written) # "E"
       /\ handle # serialPort => port.written = <<>> \/ ~port.open
       /\ ~port.open => port.written # <<>> /\ Last(port.written) = "E"

\* A port was opened, received a recoil message and was closed
C22_RecoilThenClosed ==
  \E handle \in 1..Len(ports) :
    /\ ~ports[handle].open
    /\ ports[handle].written = <<"S6", "F0x2x0x", "E">>

\* C23: a handle that was opened and is not closed is the one in serialPort,
\* so that the thread closes it on the next title change or at its end
C23_OpenHandleIsHeld ==
  \A handle \in 1..Len(ports) : ports[handle].open => serialPort = handle

\* C24: once the destructor has set quitThread the thread leaves its loop,
\* closes its port and join returns
C24_DestructorTerminates ==
  quitThread ~> (pc.thr = "done" /\ pc.dtor = "done"
                   /\ serialPort = INVALID_HANDLE_VALUE)

\* The destructor has returned and the thread closed on its way out the port
\* of the only title it saw
C24_JoinedWithPortClosed ==
  /\ pc.dtor = "done"
  /\ obs.title_changes = 0
  /\ Len(ports) = 1
  /\ ~ports[1].open
  /\ Last(ports[1].written) = "E"

\* C25: the thread reads no member before the constructor has initialized it
C25_NoUninitializedRead == ~obs.wild_read

\* ---- Recoil scheduling ----

\* C26: a title change clears the queued shots, the full-auto delay and the
\* time of the next shot, and a recoil answers a signal of the title running
C26_TitleChangeClearsSchedule ==
  /\ obs.title_changed =>
       queueSizeGunshot = 0 /\ fullAutoDelay = 0 /\ nextGunShot = 0
  /\ obs.doRecoil => obs.mode # <<>>

MachinegunOn == <<"machinegun_on", 160>>

\* C27: 'machinegun_on:D' gives a recoil at once; while no other signal comes,
\* recoils follow, each at least D after the one before and no later than one
\* iteration after D has passed; after 'machinegun_off' there is no recoil
C27_FullAuto ==
  /\ obs.output_signal = MachinegunOn => obs.doRecoil
  /\ obs.doRecoil /\ obs.output_signal = <<>> =>
       obs.mode = MachinegunOn /\ obs.gap >= DelayShot(160)
  /\ obs.mode = MachinegunOn /\ pc.thr = "sleep" =>
       now - lastGunShot <= DelayShot(160)
  /\ obs.mode = <<"machinegun_off">> => ~obs.doRecoil

\* The trigger is held for the second time and a recoil follows the one
\* before without a signal
C27_RepeatedRecoil ==
  /\ obs.presses = 2
  /\ obs.doRecoil
  /\ obs.output_signal = <<>>
  /\ obs.mode = MachinegunOn
  /\ obs.gap = DelayShot(160) + ActiveSleep

====
